---- MODULE Spec2Model ----
(***************************************************************************)
(* pdftrim: the page selection resolver (src/core/page_spec.py) and the    *)
(* page deletion methods of PDFProcessor (src/core/pdf_processor.py) that  *)
(* consume its indices on a PDFDocument (src/models/pdf_document.py).      *)
(* Further: the batch loop of WorkflowManager                              *)
(* (src/services/workflow_manager.py) that hands every file to the         *)
(* processor, and the choice of the operation from the command line        *)
(* (CLIHandler.handle_arguments_with_result).                              *)
(*                                                                         *)
(* A Python str is a sequence of one-character strings.  A raised          *)
(* exception is an outcome record with kind # "ok"; msg is the text of the *)
(* exception as a sequence of pieces (literals, and the characters of the  *)
(* formatted values; every digit of the text is a piece of its own).       *)
(***************************************************************************)
EXTENDS Integers, Sequences, FiniteSets, TLC

VARIABLES
    \* one call of a resolver operation
    call,               \* the operation and its arguments
    rpc,                \* "ready" before the call, "done" after it
    outcome,            \* what the call returned or raised
    \* one call of PDFProcessor.process_pdf_delete_pages / _delete_before_after
    job,                \* the method and its arguments, and the input file
    ppc,                \* the position in the method
    doc,                \* the pages of the open PDFDocument, each named by its
                        \* 0-based index in the input file
    is_open,            \* PDFDocument._is_open
    doc_page_count,     \* the local page_count = len(doc)
    indices_to_delete,  \* the local indices_to_delete
    loop_pos,           \* the position of the delete loop in indices_to_delete
    exc,                \* the exception in flight, "none" if there is none
    saved,              \* the pages of every output file written
    result,             \* what the method returned or raised to its caller
    \* one call of WorkflowManager._process_batch_operation
    breq,               \* its arguments, and whether the output directory
                        \* can be created
    pdf_files,          \* the list find_pdf_files returns: for each file
                        \* whether it passes validation, and its pages
    bpc,                \* the position in the method
    file_pos,           \* the position of the for loop in pdf_files
    handed,             \* the positions of the files handed to the processor
                        \* so far, in the order of the calls
    successful,         \* the local successful
    failed,             \* the local failed
    bresult,            \* what the method returned or raised to its caller
    \* one call of CLIHandler.handle_arguments_with_result
    cli_args,           \* the options on the command line
    cpc,                \* "ready" before the call, "done" after it
    cli_result,         \* the CLIResult returned
    \* one call of PDFProcessor._remove_blank_pages
    sdoc_in,            \* the pages of doc at the call: name and blankness
    sdoc,               \* the pages of doc now
    spc,                \* the position in the method
    scan_page_num,      \* the loop variable page_num of the first loop
    blank_pages,        \* the local blank_pages
    blank_pos,          \* the position of the second loop in blank_pages
    sresult,            \* what the method returned or raised
    \* one call of PDFProcessor._trim_page_content or _trim_page_content_inverted
    trim,               \* the call: pages of the source, page_num, inverted or not
    source_open,        \* source_doc is open
    new_doc,            \* the pages of new_doc
    new_open,           \* new_doc is open
    tpc,                \* the position in the method
    copy_i,             \* the loop variable i of the copying loop
    tsaved,             \* the documents written by save
    tresult,            \* what the method returned or raised
    \* one call of WorkflowManager.process_request
    request,            \* the OperationRequest, the output directory and the files on disk
    qpc,                \* the position in process_request
    qresult,            \* what process_request returned or raised
    \* a DependencyContainer and the calls made on it
    registrations,      \* _registrations: for every interface its ComponentRegistration
    singletons,         \* _singletons: for every interface the cached instance
    next_reg,           \* the number of the next registration
    factory_log,        \* for every interface the outcomes of the invocations of its factory since it was registered
    resolves,           \* for every interface the number of resolve calls since it was registered
    resolved,           \* for every interface the components resolve returned since it was registered
    ops,                \* the number of calls made on the container
    last_op,            \* the last call and its outcome
    \* PDFDocument objects and the calls made on them
    docs,               \* for every PDFDocument its pages, _is_open and the state of the handle _doc
    close_calls,        \* for every PDFDocument the number of close() calls, those of __exit__ included
    handle_closes,      \* for every PDFDocument the number of times _doc.close() was called
    doc_ops,            \* the number of calls made on the documents
    last_call,          \* the last call and its outcome
    \* one call of ApplicationController.run
    app,                \* what the command line and the disk hold besides cli_args
    apc,                \* the position in run
    success,            \* the local success of run: what _execute_workflow returned
    aresult             \* what run returned or raised

rvars == <<call, rpc, outcome>>
pvars == <<job, ppc, doc, is_open, doc_page_count, indices_to_delete, loop_pos,
           exc, saved, result>>
bvars == <<breq, pdf_files, bpc, file_pos, handed, successful, failed, bresult>>
cvars == <<cli_args, cpc, cli_result>>
\* the state of the other operations modelled
svars == <<sdoc_in, sdoc, spc, scan_page_num, blank_pages, blank_pos, sresult>>
tvars == <<trim, source_open, new_doc, new_open, tpc, copy_i, tsaved, tresult>>
qvars == <<request, qpc, qresult>>
dvars == <<registrations, singletons, next_reg, factory_log, resolves, resolved, ops, last_op>>
lvars == <<docs, close_calls, handle_closes, doc_ops, last_call>>
avars == <<app, apc, success, aresult>>
ovars == <<svars, tvars, qvars, dvars, lvars, avars>>
not_svars == <<rvars, pvars, bvars, cvars, tvars, qvars, dvars, lvars, avars>>
not_tvars == <<rvars, pvars, bvars, cvars, svars, qvars, dvars, lvars, avars>>
rest_qvars == <<svars, tvars, dvars, lvars, avars>>
not_dvars == <<rvars, pvars, bvars, cvars, svars, tvars, qvars, lvars, avars>>
not_lvars == <<rvars, pvars, bvars, cvars, svars, tvars, qvars, dvars, avars>>
rest_avars == <<svars, tvars, qvars, dvars, lvars>>
\* (end of the state of the other operations)
vars == <<call, rpc, outcome, job, ppc, doc, is_open, doc_page_count,
          indices_to_delete, loop_pos, exc, saved, result, breq, pdf_files,
          bpc, file_pos, handed, successful, failed, bresult, cli_args,
          cpc, cli_result, sdoc_in, sdoc, spc, scan_page_num, blank_pages,
          blank_pos, sresult, trim, source_open, new_doc, new_open, tpc,
          copy_i, tsaved, tresult, request, qpc, qresult, registrations,
          singletons, next_reg, factory_log, resolves, resolved, ops,
          last_op, docs, close_calls, handle_closes, doc_ops, last_call,
          app, apc, success, aresult>>

-----------------------------------------------------------------------------
(* Bounds of the model *)

\* longest specification string enumerated character by character
MaxLen == 4
\* most tokens in a specification written out from page numbers and ranges
MaxTokens == 2
\* most pages in a document
MaxPages == 3
\* most files find_pdf_files returns
MaxFiles == 2
\* most pages in a document handed to _remove_blank_pages
MaxScanPages == 5
\* most calls made on a DependencyContainer
MaxOps == 5
\* most calls made on the PDFDocument objects
MaxDocOps == 4

-----------------------------------------------------------------------------
(* Characters and the str methods the resolver uses *)

\* a character for which str.isdigit() is True and int() raises ValueError
\* (U+00B2 SUPERSCRIPT TWO)
SupTwo == "sup2"

AsciiDigits == <<"0", "1", "2", "3", "4", "5", "6", "7", "8", "9">>

DigitChars == {AsciiDigits[i] : i \in 1..10}

DigitValue(c) == (CHOOSE i \in 1..10 : AsciiDigits[i] = c) - 1

IsSpace(c) == c = " "

RECURSIVE LStrip(_)
LStrip(s) == IF s # <<>> /\ IsSpace(Head(s)) THEN LStrip(Tail(s)) ELSE s

RECURSIVE RStrip(_)
RStrip(s) ==
    IF s # <<>> /\ IsSpace(s[Len(s)]) THEN RStrip(SubSeq(s, 1, Len(s) - 1)) ELSE s

\* str.strip()
Strip(s) == RStrip(LStrip(s))

\* sep in s
Contains(s, sep) == \E i \in 1..Len(s) : s[i] = sep

\* str.split(sep): the pieces between the occurrences of sep, empty ones kept
RECURSIVE Split(_, _)
Split(s, sep) ==
    IF ~Contains(s, sep) THEN <<s>>
    ELSE LET i == CHOOSE k \in 1..Len(s) :
                      s[k] = sep /\ \A j \in 1..(k - 1) : s[j] # sep
         IN  <<SubSeq(s, 1, i - 1)>> \o Split(SubSeq(s, i + 1, Len(s)), sep)

\* str.isdigit(): non-empty and every character is a digit character
IsDigit(s) == s # <<>> /\ \A i \in 1..Len(s) : s[i] \in DigitChars \cup {SupTwo}

\* int(s) succeeds on ASCII decimal digits only
IntConvertible(s) == \A i \in 1..Len(s) : s[i] \in DigitChars

RECURSIVE IntOf(_)
IntOf(s) ==
    IF s = <<>> THEN 0
    ELSE 10 * IntOf(SubSeq(s, 1, Len(s) - 1)) + DigitValue(s[Len(s)])

\* f"{n}" for an int n >= 0
RECURSIVE Format(_)
Format(n) ==
    IF n < 10 THEN <<AsciiDigits[n + 1]>>
    ELSE Format(n \div 10) \o <<AsciiDigits[(n % 10) + 1]>>

\* mutant: sorted(S), ascending
RECURSIVE SortedDesc_MutAscending(_)
SortedDesc_MutAscending(S) ==
    IF S = {} THEN <<>>
    ELSE LET m == CHOOSE x \in S : \A y \in S : x <= y
         IN  <<m>> \o SortedDesc_MutAscending(S \ {m})

\* sorted(S, reverse=True)
RECURSIVE SortedDesc(_)
SortedDesc(S) ==
    IF S = {} THEN <<>>
    ELSE LET m == CHOOSE x \in S : \A y \in S : y <= x
         IN  <<m>> \o SortedDesc(S \ {m})

\* list(range(hi, lo - 1, -1)): hi, hi-1, ..., lo
RangeDesc(hi, lo) == [i \in 1..(IF hi >= lo THEN hi - lo + 1 ELSE 0) |-> hi - i + 1]

\* set(seq)
ToSet(seq) == {seq[i] : i \in 1..Len(seq)}

-----------------------------------------------------------------------------
(* Outcomes of a call *)

Returned(indices, has_keep, keep) ==
    [kind |-> "ok", msg |-> <<>>, indices |-> indices,
     has_keep |-> has_keep, keep |-> keep]

Raised(kind, msg) ==
    [kind |-> kind, msg |-> msg, indices |-> <<>>, has_keep |-> FALSE, keep |-> <<>>]

PageSpecError(msg) == Raised("PageSpecError", msg)

NoOutcome == Raised("none", <<>>)

-----------------------------------------------------------------------------
(* src/core/page_spec.py *)

\* _require_page_count
RequirePageCount(page_count) ==
    IF page_count < 0 THEN PageSpecError(<<"page_count must be >= ", "0">>)
    ELSE Returned(<<>>, FALSE, <<>>)

\* _parse_positive_int: the value is returned as the one element of indices
ParsePositiveInt(token0, what) ==
    LET token == Strip(token0) IN
    IF token = <<>> THEN PageSpecError(<<"Empty ", what>>)
    ELSE IF ~IsDigit(token) THEN
        PageSpecError(<<"Invalid ", what, ": '">> \o token \o <<"'">>)
    ELSE IF ~IntConvertible(token) THEN
        Raised("ValueError", <<"invalid literal for int() with base ", "1", "0", ": '">>
                                 \o token \o <<"'">>)
    ELSE IF IntOf(token) < 1 THEN PageSpecError(<<what, " must be >= ", "1">>)
    ELSE Returned(<<IntOf(token)>>, FALSE, <<>>)

\* mutant: only the start of the range is checked against page_count
RangeOutOfBounds_MutStartOnly(start_1, end_1, page_count) == start_1 > page_count

\* start_1 > page_count or end_1 > page_count
RangeOutOfBounds(start_1, end_1, page_count) ==
    start_1 > page_count \/ end_1 > page_count

\* mutant: range(start_1, end_1), the end excluded
RangeIndices_MutExclusiveEnd(start_1, end_1) == RangeDesc(end_1 - 2, start_1 - 1)

\* the indices page_1 - 1 for page_1 in range(start_1, end_1 + 1)
RangeIndices(start_1, end_1) == RangeDesc(end_1 - 1, start_1 - 1)

\* one pass of the body of the for loop of parse_delete_spec on raw_item:
\* an exception, or the set of indices the item adds
ParseItem(raw_item, page_count) ==
    LET item == Strip(raw_item) IN
    IF item = <<>> THEN
        PageSpecError(<<"Invalid delete specification: empty item">>)
    ELSE IF Contains(item, "-") THEN
        LET parts == Split(item, "-") IN
        IF Len(parts) # 2 THEN
            PageSpecError(<<"Invalid range token: '">> \o item \o <<"'">>)
        ELSE
            LET start == ParsePositiveInt(parts[1], "range start") IN
            IF start.kind # "ok" THEN start
            ELSE
                LET end == ParsePositiveInt(parts[2], "range end")
                    start_1 == start.indices[1]
                IN
                IF end.kind # "ok" THEN end
                ELSE
                    LET end_1 == end.indices[1] IN
                    IF end_1 < start_1 THEN
                        PageSpecError(<<"Invalid range '">> \o item
                                          \o <<"': end < start">>)
                    ELSE IF RangeOutOfBounds(start_1, end_1, page_count) THEN
                        PageSpecError(<<"Range '">> \o item
                                          \o <<"'", " out of bounds (document has ">>
                                          \o Format(page_count) \o <<" pages)">>)
                    ELSE Returned(RangeIndices(start_1, end_1), FALSE, <<>>)
    ELSE
        LET page == ParsePositiveInt(item, "page number") IN
        IF page.kind # "ok" THEN page
        ELSE
            LET page_1 == page.indices[1] IN
            IF page_1 > page_count THEN
                PageSpecError(<<"Page ">> \o Format(page_1)
                                  \o <<" out of bounds (document has ">>
                                  \o Format(page_count) \o <<" pages)">>)
            ELSE Returned(<<page_1 - 1>>, FALSE, <<>>)

\* mutant: the for loop runs over reversed(items)
RECURSIVE ParseItems_MutRightToLeft(_, _, _, _)
ParseItems_MutRightToLeft(items, k, indices, page_count) ==
    IF k > Len(items) THEN Returned(SortedDesc(indices), FALSE, <<>>)
    ELSE LET r == ParseItem(items[Len(items) + 1 - k], page_count) IN
         IF r.kind # "ok" THEN r
         ELSE ParseItems_MutRightToLeft(items, k + 1,
                                        indices \cup ToSet(r.indices), page_count)

\* the for loop of parse_delete_spec from item k on, indices being the set so far
RECURSIVE ParseItems(_, _, _, _)
ParseItems(items, k, indices, page_count) ==
    IF k > Len(items) THEN Returned(SortedDesc(indices), FALSE, <<>>)
    ELSE LET r == ParseItem(items[k], page_count) IN
         IF r.kind # "ok" THEN r
         ELSE ParseItems(items, k + 1, indices \cup ToSet(r.indices), page_count)

\* mutant: the test for an empty document comes after the for loop
ParseDeleteSpec_MutTokensFirst(spec0, page_count) ==
    LET rq == RequirePageCount(page_count)
        spec == Strip(spec0)
        parsed == ParseItems(Split(spec, ","), 1, {}, page_count)
    IN
    IF rq.kind # "ok" THEN rq
    ELSE IF spec = <<>> THEN PageSpecError(<<"Delete specification cannot be empty">>)
    ELSE IF parsed.kind # "ok" THEN parsed
    ELSE IF page_count = 0 THEN
        PageSpecError(<<"Cannot delete pages from an empty document">>)
    ELSE parsed

\* parse_delete_spec
ParseDeleteSpec(spec0, page_count) ==
    LET rq == RequirePageCount(page_count)
        spec == Strip(spec0)
    IN
    IF rq.kind # "ok" THEN rq
    ELSE IF spec = <<>> THEN PageSpecError(<<"Delete specification cannot be empty">>)
    ELSE IF page_count = 0 THEN
        PageSpecError(<<"Cannot delete pages from an empty document">>)
    ELSE ParseItems(Split(spec, ","), 1, {}, page_count)

\* mutant: the complement is taken over range(page_count - 1, 0, -1)
ComputeIndicesToDelete_MutSkipsFirstPage(spec, page_count, invert_selection) ==
    LET parsed == ParseDeleteSpec(spec, page_count) IN
    IF parsed.kind # "ok" THEN parsed
    ELSE IF ~invert_selection THEN Returned(parsed.indices, FALSE, <<>>)
    ELSE
        LET keep_indices_desc == parsed.indices
            keep_set == ToSet(keep_indices_desc)
        IN  Returned(SortedDesc({i \in 1..(page_count - 1) : i \notin keep_set}),
                     TRUE, keep_indices_desc)

\* mutant: the parsed indices are returned as keep list without inversion too
ComputeIndicesToDelete_MutKeepWithoutInvert(spec, page_count, invert_selection) ==
    LET parsed == ParseDeleteSpec(spec, page_count) IN
    IF parsed.kind # "ok" THEN parsed
    ELSE IF ~invert_selection THEN Returned(parsed.indices, TRUE, parsed.indices)
    ELSE
        LET keep_indices_desc == parsed.indices
            keep_set == ToSet(keep_indices_desc)
        IN  Returned(SortedDesc({i \in 0..(page_count - 1) : i \notin keep_set}),
                     TRUE, keep_indices_desc)

\* compute_indices_to_delete
ComputeIndicesToDelete(spec, page_count, invert_selection) ==
    LET parsed == ParseDeleteSpec(spec, page_count) IN
    IF parsed.kind # "ok" THEN parsed
    ELSE IF ~invert_selection THEN Returned(parsed.indices, FALSE, <<>>)
    ELSE
        LET keep_indices_desc == parsed.indices
            keep_set == ToSet(keep_indices_desc)
        IN  Returned(SortedDesc({i \in 0..(page_count - 1) : i \notin keep_set}),
                     TRUE, keep_indices_desc)

Min(a, b) == IF a <= b THEN a ELSE b

\* the checks indices_before_page makes on a document with pages
BeforePageError(before_page_1_based, page_count) ==
    IF before_page_1_based < 1 THEN PageSpecError(<<"before page must be >= ", "1">>)
    ELSE IF before_page_1_based > page_count + 1 THEN
        PageSpecError(<<"before page ">> \o Format(before_page_1_based)
                          \o <<" out of bounds (document has ">>
                          \o Format(page_count) \o <<" pages)">>)
    ELSE Returned(<<>>, FALSE, <<>>)

\* mutant: end_exclusive = min(before_page_1_based, page_count)
IndicesBeforePage_MutOffByOne(before_page_1_based, page_count) ==
    LET rq == RequirePageCount(page_count)
        bad == BeforePageError(before_page_1_based, page_count)
    IN
    IF rq.kind # "ok" THEN rq
    ELSE IF page_count = 0 THEN Returned(<<>>, FALSE, <<>>)
    ELSE IF bad.kind # "ok" THEN bad
    ELSE
        LET end_exclusive == Min(before_page_1_based, page_count)
        IN  Returned(RangeDesc(end_exclusive - 1, 0), FALSE, <<>>)

\* mutant: no early return for page_count == 0
IndicesBeforePage_MutNoEmptyShortcut(before_page_1_based, page_count) ==
    LET rq == RequirePageCount(page_count)
        bad == BeforePageError(before_page_1_based, page_count)
    IN
    IF rq.kind # "ok" THEN rq
    ELSE IF bad.kind # "ok" THEN bad
    ELSE
        LET end_exclusive == Min(before_page_1_based - 1, page_count)
        IN  Returned(RangeDesc(end_exclusive - 1, 0), FALSE, <<>>)

\* indices_before_page
IndicesBeforePage(before_page_1_based, page_count) ==
    LET rq == RequirePageCount(page_count)
        bad == BeforePageError(before_page_1_based, page_count)
    IN
    IF rq.kind # "ok" THEN rq
    ELSE IF page_count = 0 THEN Returned(<<>>, FALSE, <<>>)
    ELSE IF bad.kind # "ok" THEN bad
    ELSE
        LET end_exclusive == Min(before_page_1_based - 1, page_count)
        IN  Returned(RangeDesc(end_exclusive - 1, 0), FALSE, <<>>)

\* the text of the error for an after_page beyond the last page
AfterPageOutOfBounds(after_page_1_based, page_count) ==
    PageSpecError(<<"after page ">> \o Format(after_page_1_based)
                      \o <<" out of bounds (document has ">>
                      \o Format(page_count) \o <<" pages)">>)

\* mutant: start_0 = after_page_1_based - 1
IndicesAfterPage_MutOffByOne(after_page_1_based, page_count) ==
    LET rq == RequirePageCount(page_count) IN
    IF rq.kind # "ok" THEN rq
    ELSE IF page_count = 0 THEN Returned(<<>>, FALSE, <<>>)
    ELSE IF after_page_1_based < 1 THEN
        PageSpecError(<<"after page must be >= ", "1">>)
    ELSE IF after_page_1_based > page_count THEN
        AfterPageOutOfBounds(after_page_1_based, page_count)
    ELSE
        LET start_0 == after_page_1_based - 1 IN
        IF start_0 >= page_count THEN Returned(<<>>, FALSE, <<>>)
        ELSE Returned(RangeDesc(page_count - 1, start_0), FALSE, <<>>)

\* mutant: after_page_1_based may be page_count + 1, as before_page may
IndicesAfterPage_MutLooseBound(after_page_1_based, page_count) ==
    LET rq == RequirePageCount(page_count) IN
    IF rq.kind # "ok" THEN rq
    ELSE IF page_count = 0 THEN Returned(<<>>, FALSE, <<>>)
    ELSE IF after_page_1_based < 1 THEN
        PageSpecError(<<"after page must be >= ", "1">>)
    ELSE IF after_page_1_based > page_count + 1 THEN
        AfterPageOutOfBounds(after_page_1_based, page_count)
    ELSE
        LET start_0 == after_page_1_based IN
        IF start_0 >= page_count THEN Returned(<<>>, FALSE, <<>>)
        ELSE Returned(RangeDesc(page_count - 1, start_0), FALSE, <<>>)

\* indices_after_page
IndicesAfterPage(after_page_1_based, page_count) ==
    LET rq == RequirePageCount(page_count) IN
    IF rq.kind # "ok" THEN rq
    ELSE IF page_count = 0 THEN Returned(<<>>, FALSE, <<>>)
    ELSE IF after_page_1_based < 1 THEN
        PageSpecError(<<"after page must be >= ", "1">>)
    ELSE IF after_page_1_based > page_count THEN
        AfterPageOutOfBounds(after_page_1_based, page_count)
    ELSE
        LET start_0 == after_page_1_based IN
        IF start_0 >= page_count THEN Returned(<<>>, FALSE, <<>>)
        ELSE Returned(RangeDesc(page_count - 1, start_0), FALSE, <<>>)

-----------------------------------------------------------------------------
(* src/models/pdf_document.py, src/models/page.py, src/models/result.py *)

\* an optional int argument
None == [some |-> FALSE, v |-> 0]

Some(v) == [some |-> TRUE, v |-> v]

\* seq without its element at 0-based position i
RemoveAt(seq, i) == SubSeq(seq, 1, i) \o SubSeq(seq, i + 2, Len(seq))

\* PDFDocument.delete_page on the pages d of a document whose _is_open is open:
\* the exception raised ("none" if none) and the pages afterwards
DeletePage(d, open, page_num) ==
    IF ~open THEN [exc |-> "RuntimeError", doc |-> d]
    ELSE IF page_num < 0 \/ page_num >= Len(d) THEN [exc |-> "IndexError", doc |-> d]
    ELSE [exc |-> "none", doc |-> RemoveAt(d, page_num)]

\* the keyword parameters of Page.__init__
PageInitParams == {"debug"}

\* the keyword arguments PDFDocument.__getitem__ passes to Page
GetItemPageKwargs == {"debug", "display"}

\* PDFDocument.__getitem__: the exception raised, "none" if a Page is returned
GetItem(d, open, page_num) ==
    IF ~open THEN "RuntimeError"
    ELSE IF page_num < 0 \/ page_num >= Len(d) THEN "IndexError"
    ELSE IF ~(GetItemPageKwargs \subseteq PageInitParams) THEN "TypeError"
    ELSE "none"

\* the keyword parameters of ProcessingResult.__init__
ProcessingResultParams ==
    {"success", "input_file", "output_file", "message", "pages_trimmed",
     "blank_pages_removed", "trim_page", "operation", "pages_deleted",
     "deleted_pages"}

\* ProcessingResult(**kwargs): the exception raised, "none" if it is constructed
ProcessingResultInit(kwargs) ==
    IF kwargs \subseteq ProcessingResultParams THEN "none" ELSE "TypeError"

-----------------------------------------------------------------------------
(* src/core/pdf_processor.py *)

\* the keyword arguments of the ProcessingResult built when the deletion would
\* remove all pages
RefusalKwargs ==
    {"success", "input_file", "message", "operation", "invert_selection"}

\* ... built after a successful save
SuccessKwargs(op) ==
    {"success", "input_file", "output_file", "message", "pages_trimmed",
     "blank_pages_removed", "operation", "pages_deleted", "deleted_pages",
     "invert_selection", "kept_pages"}
    \cup (IF op = "delete" THEN {"delete_spec", "keep_spec"}
          ELSE {"before_page", "after_page"})

\* ... built by the except clauses
HandlerKwargs(op) ==
    {"success", "input_file", "message", "operation", "invert_selection"}
    \cup (IF op = "delete" THEN {"delete_spec", "keep_spec"}
          ELSE {"before_page", "after_page"})

\* mutant: only the pages that both indices_before_page and indices_after_page
\* name form the base set
BeforeAfterIndices_MutIntersection(before_page, after_page, page_count, invert_selection) ==
    LET b == IF before_page.some THEN IndicesBeforePage(before_page.v, page_count)
             ELSE Returned(<<>>, FALSE, <<>>)
        a == IF after_page.some THEN IndicesAfterPage(after_page.v, page_count)
             ELSE Returned(<<>>, FALSE, <<>>)
    IN
    IF b.kind # "ok" THEN b
    ELSE IF a.kind # "ok" THEN a
    ELSE
        LET base_indices_to_delete == SortedDesc(ToSet(b.indices) \cap ToSet(a.indices))
            keep_set == ToSet(base_indices_to_delete)
        IN
        IF invert_selection THEN
            Returned(SortedDesc({i \in 0..(page_count - 1) : i \notin keep_set}),
                     TRUE, base_indices_to_delete)
        ELSE Returned(base_indices_to_delete, FALSE, base_indices_to_delete)

\* process_pdf_delete_before_after: the indices computed from before_page and
\* after_page (an exception of the resolver, or indices_to_delete with
\* base_indices_to_delete as keep)
BeforeAfterIndices(before_page, after_page, page_count, invert_selection) ==
    LET b == IF before_page.some THEN IndicesBeforePage(before_page.v, page_count)
             ELSE Returned(<<>>, FALSE, <<>>)
        a == IF after_page.some THEN IndicesAfterPage(after_page.v, page_count)
             ELSE Returned(<<>>, FALSE, <<>>)
    IN
    IF b.kind # "ok" THEN b
    ELSE IF a.kind # "ok" THEN a
    ELSE
        LET base_indices_to_delete == SortedDesc(ToSet(b.indices) \cup ToSet(a.indices))
            keep_set == ToSet(base_indices_to_delete)
        IN
        IF invert_selection THEN
            Returned(SortedDesc({i \in 0..(page_count - 1) : i \notin keep_set}),
                     TRUE, base_indices_to_delete)
        ELSE Returned(base_indices_to_delete, FALSE, base_indices_to_delete)

\* the test that refuses to delete every page
RefusesAll(op, indices, page_count) ==
    IF op = "delete" THEN Len(indices) >= page_count
    ELSE page_count > 0 /\ Len(indices) >= page_count

\* mutant: the loop runs over reversed(indices_to_delete)
LoopIndex_MutReversed(indices, pos) == indices[Len(indices) + 1 - pos]

\* the index the delete loop passes to delete_page in its pass number pos
LoopIndex(indices, pos) == indices[pos]

-----------------------------------------------------------------------------
(* Inputs of the resolver *)

\* the characters of the specification strings enumerated in full
Alphabet == {"0", "1", "2", ",", "-", " ", "a", SupTwo}

\* a page number N (lo = hi, range FALSE) or a range A-B with 1 <= A <= B
Tokens ==
    {[lo |-> n, hi |-> n, range |-> FALSE] : n \in 1..(MaxPages + 1)}
    \cup {t \in [lo : 1..(MaxPages + 1), hi : 1..(MaxPages + 1), range : {TRUE}] :
              t.lo <= t.hi}

\* the text of a token: "N" or "A-B"
RenderToken(t) ==
    IF t.range THEN Format(t.lo) \o <<"-">> \o Format(t.hi) ELSE Format(t.lo)

\* the tokens joined by commas
RECURSIVE Render(_)
Render(tl) ==
    IF Len(tl) = 1 THEN RenderToken(tl[1])
    ELSE RenderToken(tl[1]) \o <<",">> \o Render(Tail(tl))

\* the pages a token, and a list of tokens, denote
PagesOfToken(t) == t.lo..t.hi

PagesOf(tl) == UNION {PagesOfToken(tl[i]) : i \in 1..Len(tl)}

PageCounts == (-1)..MaxPages

PageArgs == (-1)..(MaxPages + 2)

\* the arguments of one call; tokens is the token list the specification string
\* was written out from, <<>> for a string enumerated character by character
Call(op, spec, page_count, invert_selection, page, tokens) ==
    [op |-> op, spec |-> spec, page_count |-> page_count,
     invert_selection |-> invert_selection, page |-> page, tokens |-> tokens]

SpecOps == {<<"parse_delete_spec", FALSE>>,
            <<"compute_indices_to_delete", FALSE>>,
            <<"compute_indices_to_delete", TRUE>>}

-----------------------------------------------------------------------------
(* One call of a resolver operation on drawn arguments *)

\* no resolver call, no processor call
RIdle ==
    /\ call = Call("none", <<>>, 0, FALSE, 0, <<>>)
    /\ rpc = "idle"
    /\ outcome = NoOutcome

Job(op, spec, before_page, after_page, invert_selection, file_ok, pages) ==
    [op |-> op, delete_spec |-> spec, before_page |-> before_page,
     after_page |-> after_page, invert_selection |-> invert_selection,
     file_ok |-> file_ok, pages |-> pages]

PIdle ==
    /\ job = Job("none", <<>>, None, None, FALSE, FALSE, 0)
    /\ ppc = "idle"
    /\ doc = <<>>
    /\ is_open = FALSE
    /\ doc_page_count = 0
    /\ indices_to_delete = <<>>
    /\ loop_pos = 0
    /\ exc = "none"
    /\ saved = <<>>
    /\ result = "none"

\* no batch run
BIdle ==
    /\ breq = [op |-> "none", delete_spec |-> <<>>, before_page |-> None,
                after_page |-> None, invert_selection |-> FALSE, dir_ok |-> FALSE]
    /\ pdf_files = <<>>
    /\ bpc = "idle"
    /\ file_pos = 0
    /\ handed = <<>>
    /\ successful = 0
    /\ failed = 0
    /\ bresult = "none"

\* no command line
CIdle ==
    /\ cli_args = [delete |-> "absent", keep |-> "absent", search |-> "absent",
                    before |-> None, after |-> None, file |-> FALSE]
    /\ cpc = "idle"
    /\ cli_result = [should_exit |-> FALSE, exit_code |-> 0, operation |-> "none",
                      invert_selection |-> FALSE, is_batch_mode |-> FALSE]

\* nothing of the other operations is in progress
SIdle ==
    /\ sdoc_in = <<>>
    /\ sdoc = <<>>
    /\ spc = "idle"
    /\ scan_page_num = 0
    /\ blank_pages = <<>>
    /\ blank_pos = 0
    /\ sresult = [kind |-> "none", exc |-> "none", count |-> 0]

TIdle ==
    /\ trim = [source |-> <<>>, page_num |-> 0, invert |-> FALSE]
    /\ source_open = FALSE
    /\ new_doc = <<>>
    /\ new_open = FALSE
    /\ tpc = "idle"
    /\ copy_i = 0
    /\ tsaved = <<>>
    /\ tresult = [kind |-> "none", exc |-> "none", count |-> 0, stage |-> "none"]

QIdle ==
    /\ request = [op |-> "none"]
    /\ qpc = "idle"
    /\ qresult = [kind |-> "none", value |-> FALSE, exc |-> "none"]

DIdle ==
    /\ registrations = <<>>
    /\ singletons = <<>>
    /\ next_reg = 0
    /\ factory_log = <<>>
    /\ resolves = <<>>
    /\ resolved = <<>>
    /\ ops = 0
    /\ last_op = [op |-> "none"]

LIdle ==
    /\ docs = <<>>
    /\ close_calls = <<>>
    /\ handle_closes = <<>>
    /\ doc_ops = 0
    /\ last_call = [op |-> "none"]

AIdle ==
    /\ app = [help |-> FALSE]
    /\ apc = "idle"
    /\ success = "none"
    /\ aresult = [kind |-> "none", code |-> 0]

OIdle ==
    /\ SIdle
    /\ TIdle
    /\ QIdle
    /\ DIdle
    /\ LIdle
    /\ AIdle

NotSIdle ==
    /\ RIdle
    /\ PIdle
    /\ BIdle
    /\ CIdle
    /\ TIdle
    /\ QIdle
    /\ DIdle
    /\ LIdle
    /\ AIdle

NotTIdle ==
    /\ RIdle
    /\ PIdle
    /\ BIdle
    /\ CIdle
    /\ SIdle
    /\ QIdle
    /\ DIdle
    /\ LIdle
    /\ AIdle

NotQIdle ==
    /\ RIdle
    /\ PIdle
    /\ BIdle
    /\ CIdle
    /\ SIdle
    /\ TIdle
    /\ DIdle
    /\ LIdle
    /\ AIdle

NotDIdle ==
    /\ RIdle
    /\ PIdle
    /\ BIdle
    /\ CIdle
    /\ SIdle
    /\ TIdle
    /\ QIdle
    /\ LIdle
    /\ AIdle

NotLIdle ==
    /\ RIdle
    /\ PIdle
    /\ BIdle
    /\ CIdle
    /\ SIdle
    /\ TIdle
    /\ QIdle
    /\ DIdle
    /\ AIdle

\* (end of the idle states)

Init ==
    /\ \/ \E o \in SpecOps, n \in PageCounts, len \in 0..MaxLen :
              \E s \in [1..len -> Alphabet] : call = Call(o[1], s, n, o[2], 0, <<>>)
       \/ \E o \in SpecOps, n \in PageCounts, len \in 1..MaxTokens :
              \E tl \in [1..len -> Tokens] :
                  call = Call(o[1], Render(tl), n, o[2], 0, tl)
       \/ \E op \in {"indices_before_page", "indices_after_page"} :
              \E n \in PageCounts, p \in PageArgs :
                  call = Call(op, <<>>, n, FALSE, p, <<>>)
    /\ rpc = "ready"
    /\ outcome = NoOutcome
    /\ PIdle
    /\ BIdle
    /\ CIdle
    /\ OIdle

CallParseDeleteSpec ==
    /\ rpc = "ready"
    /\ call.op = "parse_delete_spec"
    /\ outcome' = ParseDeleteSpec(call.spec, call.page_count)
    /\ rpc' = "done"
    /\ UNCHANGED <<call, pvars, bvars, cvars, ovars>>

CallComputeIndicesToDelete ==
    /\ rpc = "ready"
    /\ call.op = "compute_indices_to_delete"
    /\ outcome' = ComputeIndicesToDelete(call.spec, call.page_count,
                                          call.invert_selection)
    /\ rpc' = "done"
    /\ UNCHANGED <<call, pvars, bvars, cvars, ovars>>

CallIndicesBeforePage ==
    /\ rpc = "ready"
    /\ call.op = "indices_before_page"
    /\ outcome' = IndicesBeforePage(call.page, call.page_count)
    /\ rpc' = "done"
    /\ UNCHANGED <<call, pvars, bvars, cvars, ovars>>

CallIndicesAfterPage ==
    /\ rpc = "ready"
    /\ call.op = "indices_after_page"
    /\ outcome' = IndicesAfterPage(call.page, call.page_count)
    /\ rpc' = "done"
    /\ UNCHANGED <<call, pvars, bvars, cvars, ovars>>

Next ==
    \/ CallParseDeleteSpec
    \/ CallComputeIndicesToDelete
    \/ CallIndicesBeforePage
    \/ CallIndicesAfterPage

Spec == Init /\ [][Next]_vars

-----------------------------------------------------------------------------
(* One call of process_pdf_delete_pages or process_pdf_delete_before_after *)

\* delete specifications that are not lists of page numbers and ranges
OtherSpecs == {<<>>, <<" ">>, <<"a">>, <<"0">>, <<SupTwo>>, <<"1", ",">>,
               <<"2", "-", "1">>, <<" ", "1", " ", ",", "2">>}

OptionalPages == {None} \cup {Some(p) : p \in 0..(MaxPages + 2)}

DocPageCounts == 0..MaxPages

InitProc ==
    /\ \/ \E n \in DocPageCounts, b \in BOOLEAN, ok \in BOOLEAN, s \in OtherSpecs :
              job = Job("delete", s, None, None, b, ok, n)
       \/ \E n \in DocPageCounts, b \in BOOLEAN, ok \in BOOLEAN, len \in 1..MaxTokens :
              \E tl \in [1..len -> Tokens] :
                  job = Job("delete", Render(tl), None, None, b, ok, n)
       \/ \E n \in DocPageCounts, b \in BOOLEAN, ok \in BOOLEAN :
              \E bp \in OptionalPages, ap \in OptionalPages :
                  job = Job("before_after", <<>>, bp, ap, b, ok, n)
    /\ ppc = "start"
    /\ doc = <<>>
    /\ is_open = FALSE
    /\ doc_page_count = 0
    /\ indices_to_delete = <<>>
    /\ loop_pos = 0
    /\ exc = "none"
    /\ saved = <<>>
    /\ result = "none"
    /\ RIdle
    /\ BIdle
    /\ CIdle
    /\ OIdle

\* mutant: the exception reaches the except clauses without __exit__ closing
\* the document
RaiseToHandler_MutNoClose(e) ==
    /\ exc' = e
    /\ UNCHANGED is_open
    /\ ppc' = "handler"

\* an exception e leaves the with block (if the document is open, __exit__
\* closes it) and reaches the except clauses
RaiseToHandler(e) ==
    /\ exc' = e
    /\ is_open' = FALSE
    /\ ppc' = "handler"

\* validate_input_file, ensure_output_directory, create_output_filename
Validate ==
    /\ ppc = "start"
    /\ IF job.file_ok
       THEN /\ ppc' = "open"
            /\ UNCHANGED <<exc, is_open>>
       ELSE RaiseToHandler("FileValidationError")
    /\ UNCHANGED <<job, doc, doc_page_count, indices_to_delete, loop_pos, saved,
                   result, rvars, bvars,
                   cvars, ovars>>

\* with PDFDocument(validated_input) as doc: page_count = len(doc)
Open ==
    /\ ppc = "open"
    /\ doc' = [i \in 1..job.pages |-> i - 1]
    /\ is_open' = TRUE
    /\ doc_page_count' = job.pages
    /\ ppc' = "compute"
    /\ UNCHANGED <<job, indices_to_delete, loop_pos, exc, saved, result, rvars, bvars,
                   cvars, ovars>>

\* the indices to delete, and the refusal to delete every page
ComputeIndices ==
    /\ ppc = "compute"
    /\ LET r == IF job.op = "delete"
                THEN ComputeIndicesToDelete(job.delete_spec, doc_page_count,
                                            job.invert_selection)
                ELSE BeforeAfterIndices(job.before_page, job.after_page,
                                        doc_page_count, job.invert_selection)
       IN
       IF r.kind # "ok" THEN
           /\ RaiseToHandler(r.kind)
           /\ UNCHANGED <<indices_to_delete, loop_pos, result>>
       ELSE IF RefusesAll(job.op, r.indices, doc_page_count) THEN
           /\ indices_to_delete' = r.indices
           /\ IF ProcessingResultInit(RefusalKwargs) = "none"
              THEN /\ result' = "returned: success=False"
                   /\ is_open' = FALSE
                   /\ ppc' = "done"
                   /\ UNCHANGED exc
              ELSE /\ RaiseToHandler(ProcessingResultInit(RefusalKwargs))
                   /\ UNCHANGED result
           /\ UNCHANGED loop_pos
       ELSE
           /\ indices_to_delete' = r.indices
           /\ loop_pos' = 1
           /\ ppc' = "loop"
           /\ UNCHANGED <<exc, is_open, result>>
    /\ UNCHANGED <<job, doc, doc_page_count, saved, rvars, bvars,
                   cvars, ovars>>

\* one pass of: for idx in indices_to_delete: doc.delete_page(idx)
DeleteLoopStep ==
    /\ ppc = "loop"
    /\ loop_pos <= Len(indices_to_delete)
    /\ LET r == DeletePage(doc, is_open, LoopIndex(indices_to_delete, loop_pos)) IN
       IF r.exc = "none"
       THEN /\ doc' = r.doc
            /\ loop_pos' = loop_pos + 1
            /\ UNCHANGED <<ppc, exc, is_open>>
       ELSE /\ RaiseToHandler(r.exc)
            /\ UNCHANGED <<doc, loop_pos>>
    /\ UNCHANGED <<job, doc_page_count, indices_to_delete, saved, result, rvars, bvars,
                   cvars, ovars>>

\* the delete loop is over
DeleteLoopEnd ==
    /\ ppc = "loop"
    /\ loop_pos > Len(indices_to_delete)
    /\ ppc' = "after_loop"
    /\ UNCHANGED <<job, doc, is_open, doc_page_count, indices_to_delete, loop_pos,
                   exc, saved, result, rvars, bvars,
                   cvars, ovars>>

\* blank_pages_removed = self._remove_blank_pages(doc): the first pass of its
\* first loop evaluates doc[len(doc) - 1]
RemoveBlankPages ==
    /\ ppc = "after_loop"
    /\ IF Len(doc) = 0 \/ GetItem(doc, is_open, Len(doc) - 1) = "none"
       THEN /\ ppc' = "save"
            /\ UNCHANGED <<exc, is_open>>
       ELSE RaiseToHandler(GetItem(doc, is_open, Len(doc) - 1))
    /\ UNCHANGED <<job, doc, doc_page_count, indices_to_delete, loop_pos, saved,
                   result, rvars, bvars,
                   cvars, ovars>>

\* doc.save(output_file), the end of the with block, and the ProcessingResult
\* of the success
SaveAndReturn ==
    /\ ppc = "save"
    /\ IF ~is_open
       THEN /\ RaiseToHandler("RuntimeError")
            /\ UNCHANGED <<saved, result>>
       ELSE /\ saved' = Append(saved, doc)
            /\ is_open' = FALSE
            /\ IF ProcessingResultInit(SuccessKwargs(job.op)) = "none"
               THEN /\ result' = "returned: success=True"
                    /\ ppc' = "done"
                    /\ UNCHANGED exc
               ELSE /\ exc' = ProcessingResultInit(SuccessKwargs(job.op))
                    /\ ppc' = "handler"
                    /\ UNCHANGED result
    /\ UNCHANGED <<job, doc, doc_page_count, indices_to_delete, loop_pos, rvars, bvars,
                   cvars, ovars>>

\* except (FileValidationError, PageSpecError) / except Exception: both build
\* a ProcessingResult; an exception raised while building it leaves the method
Handler ==
    /\ ppc = "handler"
    /\ IF ProcessingResultInit(HandlerKwargs(job.op)) = "none"
       THEN result' = "returned: success=False"
       ELSE result' = "raised: TypeError"
    /\ exc' = "none"
    /\ ppc' = "done"
    /\ UNCHANGED <<job, doc, is_open, doc_page_count, indices_to_delete, loop_pos,
                   saved, rvars, bvars,
                   cvars, ovars>>

NextProc ==
    \/ Validate
    \/ Open
    \/ ComputeIndices
    \/ DeleteLoopStep
    \/ DeleteLoopEnd
    \/ RemoveBlankPages
    \/ SaveAndReturn
    \/ Handler

SpecProc == InitProc /\ [][NextProc]_vars

-----------------------------------------------------------------------------
(* One call of WorkflowManager._process_batch_operation *)

\* the keyword arguments of the ProcessingResult built by
\* _process_without_trimming and _process_with_trimming
SearchSuccessKwargs ==
    {"success", "input_file", "output_file", "message", "pages_trimmed",
     "blank_pages_removed", "trim_page", "operation", "search_found",
     "invert_selection"}

\* process_pdf: every exception, the one of the ProcessingResult of the success
\* included, is caught and turned into ProcessingResult(success=False,
\* input_file=..., message=...)
ProcessPdf(file_ok) ==
    IF file_ok /\ ProcessingResultInit(SearchSuccessKwargs) = "none"
    THEN "returned: success=True"
    ELSE "returned: success=False"

BatchRequest(op, spec, before_page, after_page, invert_selection, dir_ok) ==
    [op |-> op, delete_spec |-> spec, before_page |-> before_page,
     after_page |-> after_page, invert_selection |-> invert_selection,
     dir_ok |-> dir_ok]

\* a file found: whether it passes validate_input_file, and its pages
BatchFiles == [ok : BOOLEAN, pages : DocPageCounts]

BatchSpecs == {<<"1">>, <<"3">>, <<"1", "-", "2">>, <<"a">>}

BatchPages == {None, Some(1), Some(3)}

InitBatch ==
    /\ \E len \in 0..MaxFiles : \E fl \in [1..len -> BatchFiles] : pdf_files = fl
    /\ \/ \E s \in BatchSpecs, b \in BOOLEAN, ok \in BOOLEAN :
              breq = BatchRequest("delete", s, None, None, b, ok)
       \/ \E bp \in BatchPages, ap \in BatchPages, b \in BOOLEAN, ok \in BOOLEAN :
              breq = BatchRequest("before_after", <<>>, bp, ap, b, ok)
       \/ \E b \in BOOLEAN, ok \in BOOLEAN :
              breq = BatchRequest("search", <<>>, None, None, b, ok)
    /\ bpc = "start"
    /\ file_pos = 0
    /\ handed = <<>>
    /\ successful = 0
    /\ failed = 0
    /\ bresult = "none"
    /\ RIdle
    /\ PIdle
    /\ CIdle
    /\ OIdle

\* ensure_output_directory, find_pdf_files and the return of (0, 0) when no
\* file is found
BatchStart ==
    /\ bpc = "start"
    /\ IF ~breq.dir_ok THEN
           /\ bresult' = "raised: FileValidationError"
           /\ bpc' = "done"
           /\ UNCHANGED file_pos
       ELSE IF pdf_files = <<>> THEN
           /\ bresult' = "returned"
           /\ bpc' = "done"
           /\ UNCHANGED file_pos
       ELSE
           /\ bpc' = "loop"
           /\ file_pos' = 1
           /\ UNCHANGED bresult
    /\ UNCHANGED <<breq, pdf_files, handed, successful, failed, rvars, pvars, cvars, ovars>>

\* one pass of the for loop up to the call: _run_processor calls the method of
\* the processor for the operation on pdf_file
BatchRunProcessor ==
    /\ bpc = "loop"
    /\ file_pos <= Len(pdf_files)
    /\ handed' = Append(handed, file_pos)
    /\ bpc' = "call"
    /\ job' = Job(breq.op, breq.delete_spec, breq.before_page, breq.after_page,
                  breq.invert_selection, pdf_files[file_pos].ok,
                  pdf_files[file_pos].pages)
    /\ IF breq.op = "search"
       THEN /\ ppc' = "done"
            /\ result' = ProcessPdf(pdf_files[file_pos].ok)
       ELSE /\ ppc' = "start"
            /\ result' = "none"
    /\ doc' = <<>>
    /\ is_open' = FALSE
    /\ doc_page_count' = 0
    /\ indices_to_delete' = <<>>
    /\ loop_pos' = 0
    /\ exc' = "none"
    /\ saved' = <<>>
    /\ UNCHANGED <<breq, pdf_files, file_pos, successful, failed, bresult, rvars,
                   cvars, ovars>>

\* the rest of the pass: the result is counted; an exception the processor
\* raised is not caught and leaves the method
BatchCount ==
    /\ bpc = "call"
    /\ ppc = "done"
    /\ IF result = "returned: success=True" THEN
           /\ successful' = successful + 1
           /\ file_pos' = file_pos + 1
           /\ bpc' = "loop"
           /\ UNCHANGED <<failed, bresult>>
       ELSE IF result = "returned: success=False" THEN
           /\ failed' = failed + 1
           /\ file_pos' = file_pos + 1
           /\ bpc' = "loop"
           /\ UNCHANGED <<successful, bresult>>
       ELSE
           /\ bresult' = result
           /\ bpc' = "done"
           /\ UNCHANGED <<successful, failed, file_pos>>
    /\ UNCHANGED <<breq, pdf_files, handed, rvars, pvars, cvars, ovars>>

\* the for loop is over: return successful, failed
BatchReturn ==
    /\ bpc = "loop"
    /\ file_pos > Len(pdf_files)
    /\ bresult' = "returned"
    /\ bpc' = "done"
    /\ UNCHANGED <<breq, pdf_files, file_pos, handed, successful, failed, rvars,
                   pvars, cvars, ovars>>

NextBatch ==
    \/ BatchStart
    \/ BatchRunProcessor
    \/ Validate
    \/ Open
    \/ ComputeIndices
    \/ DeleteLoopStep
    \/ DeleteLoopEnd
    \/ RemoveBlankPages
    \/ SaveAndReturn
    \/ Handler
    \/ BatchCount
    \/ BatchReturn

SpecBatch == InitBatch /\ [][NextBatch]_vars

-----------------------------------------------------------------------------
(* One call of CLIHandler.handle_arguments_with_result *)

\* how an option that takes an optional value appears on the command line:
\* not at all, without a value, with the empty string, with a text
OptionValues == {"absent", "flag", "empty", "text"}

CliPages == {None, Some(3), Some(5)}

\* the command lines: --delete [SPEC], --keep [SPEC], --search TEXT,
\* --before N, --after N, --file PATH
CommandLines ==
    [delete : OptionValues, keep : OptionValues,
     search : {"absent", "empty", "text"},
     before : CliPages, after : CliPages, file : BOOLEAN]

\* CLIResult(should_exit=True, exit_code=code)
CliExit(code) ==
    [should_exit |-> TRUE, exit_code |-> code, operation |-> "none",
     invert_selection |-> FALSE, is_batch_mode |-> FALSE]

\* CLIResult(should_exit=False, parsed_args=...)
CliParsed(operation, invert_selection, is_batch_mode) ==
    [should_exit |-> FALSE, exit_code |-> 0, operation |-> operation,
     invert_selection |-> invert_selection, is_batch_mode |-> is_batch_mode]

\* the page specification given as the value of --delete or --keep
SpecValue(a) == IF a.keep # "absent" THEN a.keep ELSE a.delete

\* the operations the command line names: a page specification, a search, a
\* before/after cut
OperationsNamed(a) ==
    (IF SpecValue(a) \in {"empty", "text"} THEN {"delete"} ELSE {})
    \cup (IF a.search # "absent" THEN {"search"} ELSE {})
    \cup (IF a.before.some \/ a.after.some THEN {"before_after"} ELSE {})

\* mutant: an operation is accepted without --delete or --keep
HandleArgumentsWithResult_MutNoModeNeeded(a) ==
    IF a.keep # "absent" /\ a.delete # "absent" THEN CliExit(1)
    ELSE IF Cardinality(OperationsNamed(a)) # 1 THEN CliExit(1)
    ELSE IF SpecValue(a) = "empty" \/ a.search = "empty" THEN CliExit(1)
    ELSE CliParsed(CHOOSE o \in OperationsNamed(a) : TRUE, a.keep # "absent",
                   ~a.file)

\* handle_arguments_with_result
HandleArgumentsWithResult(a) ==
    IF a.keep # "absent" /\ a.delete # "absent" THEN CliExit(1)
    ELSE IF a.keep = "absent" /\ a.delete = "absent" THEN CliExit(1)
    ELSE IF Cardinality(OperationsNamed(a)) # 1 THEN CliExit(1)
    ELSE IF SpecValue(a) = "empty" \/ a.search = "empty" THEN CliExit(1)
    ELSE CliParsed(CHOOSE o \in OperationsNamed(a) : TRUE, a.keep # "absent",
                   ~a.file)

InitCli ==
    /\ \E a \in CommandLines : cli_args = a
    /\ cpc = "ready"
    /\ cli_result = CliParsed("none", FALSE, FALSE)
    /\ RIdle
    /\ PIdle
    /\ BIdle
    /\ OIdle

HandleArguments ==
    /\ cpc = "ready"
    /\ cli_result' = HandleArgumentsWithResult(cli_args)
    /\ cpc' = "done"
    /\ UNCHANGED <<cli_args, rvars, pvars, bvars, ovars>>

NextCli == HandleArguments

SpecCli == InitCli /\ [][NextCli]_vars

-----------------------------------------------------------------------------
(* One call of PDFProcessor._remove_blank_pages (and of remove_blank_pages of
   pdftrim.py, which has the same body) *)

ScanReturned(count) == [kind |-> "returned", exc |-> "none", count |-> count]

ScanRaised(e) == [kind |-> "raised", exc |-> e, count |-> 0]

InitScan ==
    /\ \E len \in 0..MaxScanPages :
           \E bl \in [1..len -> BOOLEAN] :
               sdoc_in = [i \in 1..len |-> [name |-> i - 1, blank |-> bl[i]]]
    /\ sdoc = sdoc_in
    /\ spc = "scan"
    /\ scan_page_num = Len(sdoc_in) - 1
    /\ blank_pages = <<>>
    /\ blank_pos = 0
    /\ sresult = [kind |-> "none", exc |-> "none", count |-> 0]
    /\ NotSIdle

\* one pass of: for page_num in range(len(doc) - 1, -1, -1), or its end;
\* an exception of doc[page_num] leaves the method
ScanBlankPages ==
    /\ spc = "scan"
    /\ IF scan_page_num < 0 THEN
           /\ spc' = "remove"
           /\ blank_pos' = 1
           /\ UNCHANGED <<scan_page_num, blank_pages, sresult>>
       ELSE IF GetItem(sdoc, TRUE, scan_page_num) # "none" THEN
           /\ sresult' = ScanRaised(GetItem(sdoc, TRUE, scan_page_num))
           /\ spc' = "done"
           /\ UNCHANGED <<scan_page_num, blank_pages, blank_pos>>
       ELSE
           /\ blank_pages' = IF sdoc[scan_page_num + 1].blank
                             THEN Append(blank_pages, scan_page_num)
                             ELSE blank_pages
           /\ scan_page_num' = scan_page_num - 1
           /\ UNCHANGED <<spc, blank_pos, sresult>>
    /\ UNCHANGED <<sdoc_in, sdoc, not_svars>>

\* one pass of: for page_num in blank_pages: doc.delete_page(page_num), or
\* return len(blank_pages)
RemoveBlankLoop ==
    /\ spc = "remove"
    /\ IF blank_pos > Len(blank_pages) THEN
           /\ sresult' = ScanReturned(Len(blank_pages))
           /\ spc' = "done"
           /\ UNCHANGED <<sdoc, blank_pos>>
       ELSE LET r == DeletePage(sdoc, TRUE, blank_pages[blank_pos]) IN
           IF r.exc # "none" THEN
               /\ sresult' = ScanRaised(r.exc)
               /\ spc' = "done"
               /\ UNCHANGED <<sdoc, blank_pos>>
           ELSE
               /\ sdoc' = r.doc
               /\ blank_pos' = blank_pos + 1
               /\ UNCHANGED <<spc, sresult>>
    /\ UNCHANGED <<sdoc_in, scan_page_num, blank_pages, not_svars>>

NextScan ==
    \/ ScanBlankPages
    \/ RemoveBlankLoop

SpecScan == InitScan /\ [][NextScan]_vars

-----------------------------------------------------------------------------
(* One call of PDFProcessor._trim_page_content or
   _trim_page_content_inverted.  A page of new_doc is the name of the source
   page it was made of, the part of it that was kept, and its blankness. *)

TrimReturned(count) ==
    [kind |-> "returned", exc |-> "none", count |-> count, stage |-> "none"]

\* stage is the statement of the method the exception came from
TrimRaised(e, stage) ==
    [kind |-> "raised", exc |-> e, count |-> 0, stage |-> stage]

\* the page new_doc gets from insert_pdf(source_doc, from_page=i, to_page=i)
CopiedPage(source, i) ==
    [name |-> source[i + 1].name, part |-> "whole", blank |-> source[i + 1].blank]

\* the page new_doc gets from new_page and show_pdf_page with clip_rect
ClippedPage(source, i, part, blank) ==
    [name |-> source[i + 1].name, part |-> part, blank |-> blank]

\* self._remove_blank_pages(d) as one step: the exception, the document and
\* the count
RemoveBlankPagesOf(d, open) ==
    IF d = <<>> THEN [exc |-> "none", doc |-> d, count |-> 0]
    ELSE IF GetItem(d, open, Len(d) - 1) # "none"
         THEN [exc |-> GetItem(d, open, Len(d) - 1), doc |-> d, count |-> 0]
    ELSE LET Keep(pg) == ~pg.blank
         IN [exc |-> "none", doc |-> SelectSeq(d, Keep),
             count |-> Len(d) - Len(SelectSeq(d, Keep))]

InitTrim ==
    /\ \E n \in 0..MaxPages :
           \E bl \in [1..n -> BOOLEAN], p \in 0..n, inv \in BOOLEAN :
               trim = [source |-> [i \in 1..n |-> [name |-> i - 1, blank |-> bl[i]]],
                       page_num |-> p, invert |-> inv]
    /\ source_open = TRUE
    /\ new_doc = <<>>
    /\ new_open = TRUE
    /\ tpc = IF trim.invert THEN "cutoff" ELSE "copy_before"
    /\ copy_i = 0
    /\ tsaved = <<>>
    /\ tresult = [kind |-> "none", exc |-> "none", count |-> 0, stage |-> "none"]
    /\ NotTIdle

\* an exception leaves both with blocks: both documents are closed
TrimRaise(e, stage) ==
    /\ tresult' = TrimRaised(e, stage)
    /\ tpc' = "done"
    /\ source_open' = FALSE
    /\ new_open' = FALSE

\* _trim_page_content: one pass of for i in range(page_num), or its end
TrimCopyBefore ==
    /\ tpc = "copy_before"
    /\ IF copy_i < trim.page_num THEN
           IF ~new_open THEN
               /\ TrimRaise("RuntimeError", "copy")
               /\ UNCHANGED <<new_doc, copy_i>>
           ELSE
               /\ new_doc' = Append(new_doc, CopiedPage(trim.source, copy_i))
               /\ copy_i' = copy_i + 1
               /\ UNCHANGED <<source_open, new_open, tpc, tresult>>
       ELSE
           /\ tpc' = "cutoff"
           /\ UNCHANGED <<source_open, new_doc, new_open, copy_i, tresult>>
    /\ UNCHANGED <<trim, tsaved, not_tvars>>

\* if page_num < len(source_doc): source_page = source_doc[page_num] ... and
\* the clipped copy of it, above y_cutoff or, inverted, below it
TrimCutoffPage ==
    /\ tpc = "cutoff"
    /\ IF trim.page_num < Len(trim.source) THEN
           IF GetItem(trim.source, source_open, trim.page_num) # "none" THEN
               /\ TrimRaise(GetItem(trim.source, source_open, trim.page_num), "cutoff")
               /\ UNCHANGED <<new_doc, copy_i>>
           ELSE IF ~new_open THEN
               /\ TrimRaise("RuntimeError", "cutoff")
               /\ UNCHANGED <<new_doc, copy_i>>
           ELSE
               /\ \E b \in (IF trim.source[trim.page_num + 1].blank
                            THEN {TRUE} ELSE BOOLEAN) :
                      new_doc' = Append(new_doc,
                                     ClippedPage(trim.source, trim.page_num,
                                                 IF trim.invert THEN "below" ELSE "above", b))
               /\ tpc' = IF trim.invert THEN "copy_after" ELSE "blank"
               /\ copy_i' = trim.page_num + 1
               /\ UNCHANGED <<source_open, new_open, tresult>>
       ELSE
           /\ tpc' = IF trim.invert THEN "copy_after" ELSE "blank"
           /\ copy_i' = trim.page_num + 1
           /\ UNCHANGED <<source_open, new_doc, new_open, tresult>>
    /\ UNCHANGED <<trim, tsaved, not_tvars>>

\* _trim_page_content_inverted: one pass of
\* for i in range(page_num + 1, len(source_doc)), or its end
TrimCopyAfter ==
    /\ tpc = "copy_after"
    /\ IF copy_i < Len(trim.source) THEN
           IF ~new_open THEN
               /\ TrimRaise("RuntimeError", "copy")
               /\ UNCHANGED <<new_doc, copy_i>>
           ELSE
               /\ new_doc' = Append(new_doc, CopiedPage(trim.source, copy_i))
               /\ copy_i' = copy_i + 1
               /\ UNCHANGED <<source_open, new_open, tpc, tresult>>
       ELSE
           /\ tpc' = "blank"
           /\ UNCHANGED <<source_open, new_doc, new_open, copy_i, tresult>>
    /\ UNCHANGED <<trim, tsaved, not_tvars>>

\* blank_pages_removed = self._remove_blank_pages(new_doc);
\* new_doc.save(output_file); return blank_pages_removed
TrimRemoveBlankAndSave ==
    /\ tpc = "blank"
    /\ LET r == RemoveBlankPagesOf(new_doc, new_open) IN
           IF r.exc # "none" THEN
               /\ TrimRaise(r.exc, "blank")
               /\ UNCHANGED <<new_doc, tsaved>>
           ELSE IF ~new_open THEN
               /\ TrimRaise("RuntimeError", "save")
               /\ new_doc' = r.doc
               /\ UNCHANGED tsaved
           ELSE
               /\ new_doc' = r.doc
               /\ tsaved' = Append(tsaved, r.doc)
               /\ tresult' = TrimReturned(r.count)
               /\ tpc' = "done"
               /\ source_open' = FALSE
               /\ new_open' = FALSE
    /\ UNCHANGED <<trim, copy_i, not_tvars>>

NextTrim ==
    \/ TrimCopyBefore
    \/ TrimCutoffPage
    \/ TrimCopyAfter
    \/ TrimRemoveBlankAndSave

SpecTrim == InitTrim /\ [][NextTrim]_vars

-----------------------------------------------------------------------------
(* One call of WorkflowManager.process_request *)

RequestReturned(value) == [kind |-> "returned", value |-> value, exc |-> "none"]

RequestRaised(e) == [kind |-> "raised", value |-> FALSE, exc |-> e]

\* OperationRequest.validate raises ValueError
RequestInvalid(q) ==
    IF q.op = "search" THEN Strip(q.search_string) = <<>>
    ELSE IF q.op = "delete" THEN Strip(q.delete_spec) = <<>>
    ELSE \/ ~q.before_page.some /\ ~q.after_page.some
         \/ q.before_page.some /\ q.before_page.v < 1
         \/ q.after_page.some /\ q.after_page.v < 1

\* mutant: the batch verdict is that some file succeeded
NoFileFailed_MutSomeSucceeded(successful_, failed_) == successful_ > 0

\* return failed == 0
NoFileFailed(successful_, failed_) == failed_ = 0

RequestTexts == {<<>>, <<" ">>, <<"a">>}

RequestSpecs == {<<>>, <<"1">>, <<"a">>}

RequestPages == {None, Some(0), Some(1)}

\* batch stands for: request.is_batch_mode or request.input_path is None;
\* files are the PDF files of the directory of a batch, file is the file at
\* input_path of a single-file request
InitRequest ==
    /\ \E op \in {"delete", "before_after", "search"}, b \in BOOLEAN, ok \in BOOLEAN,
          s \in RequestSpecs, bp \in RequestPages, ap \in RequestPages,
          t \in RequestTexts :
         /\ op = "delete" => bp = None /\ ap = None /\ t = <<>>
         /\ op = "before_after" => s = <<>> /\ t = <<>>
         /\ op = "search" => s = <<>> /\ bp = None /\ ap = None
         /\ \/ \E len \in 0..MaxFiles : \E fl \in [1..len -> BatchFiles] :
                   request = [op |-> op, batch |-> TRUE, search_string |-> t,
                              delete_spec |-> s, before_page |-> bp,
                              after_page |-> ap, invert_selection |-> b,
                              dir_ok |-> ok, file |-> [ok |-> FALSE, pages |-> 0],
                              files |-> fl]
            \/ \E f \in BatchFiles :
                   request = [op |-> op, batch |-> FALSE, search_string |-> t,
                              delete_spec |-> s, before_page |-> bp,
                              after_page |-> ap, invert_selection |-> b,
                              dir_ok |-> ok, file |-> f, files |-> <<>>]
    /\ qpc = "validate"
    /\ qresult = [kind |-> "none", value |-> FALSE, exc |-> "none"]
    /\ NotQIdle

\* request.validate() and the choice between _process_batch_operation and
\* _process_single_operation
RequestValidate ==
    /\ qpc = "validate"
    /\ IF RequestInvalid(request) THEN
           /\ qresult' = RequestRaised("ValueError")
           /\ qpc' = "done"
           /\ UNCHANGED <<breq, pdf_files, bpc>>
       ELSE IF request.batch THEN
           /\ breq' = BatchRequest(request.op, request.delete_spec,
                                   request.before_page, request.after_page,
                                   request.invert_selection, request.dir_ok)
           /\ pdf_files' = request.files
           /\ bpc' = "start"
           /\ qpc' = "batch"
           /\ UNCHANGED qresult
       ELSE
           /\ qpc' = "single"
           /\ UNCHANGED <<qresult, breq, pdf_files, bpc>>
    /\ UNCHANGED <<request, file_pos, handed, successful, failed, bresult,
                   rvars, pvars, cvars, rest_qvars>>

\* _process_single_operation up to the call: ensure_output_directory, then
\* _run_processor calls the method of the processor for the operation
RequestRunProcessor ==
    /\ qpc = "single"
    /\ IF ~request.dir_ok THEN
           /\ qresult' = RequestRaised("FileValidationError")
           /\ qpc' = "done"
           /\ UNCHANGED pvars
       ELSE
           /\ qpc' = "single_call"
           /\ job' = Job(request.op, request.delete_spec, request.before_page,
                         request.after_page, request.invert_selection,
                         request.file.ok, request.file.pages)
           /\ IF request.op = "search"
              THEN /\ ppc' = "done"
                   /\ result' = ProcessPdf(request.file.ok)
              ELSE /\ ppc' = "start"
                   /\ result' = "none"
           /\ UNCHANGED <<doc, is_open, doc_page_count, indices_to_delete,
                          loop_pos, exc, saved, qresult>>
    /\ UNCHANGED <<request, rvars, bvars, cvars, rest_qvars>>

\* the end of _process_single_operation (return True / return False), or of
\* the batch branch (return failed == 0); an exception raised below
\* process_request leaves it
RequestReturn ==
    /\ \/ /\ qpc = "single_call"
          /\ ppc = "done"
          /\ qresult' = IF result = "returned: success=True" THEN RequestReturned(TRUE)
                        ELSE IF result = "returned: success=False"
                             THEN RequestReturned(FALSE)
                        ELSE RequestRaised("TypeError")
       \/ /\ qpc = "batch"
          /\ bpc = "done"
          /\ qresult' = IF bresult = "returned"
                        THEN RequestReturned(NoFileFailed(successful, failed))
                        ELSE IF bresult = "raised: FileValidationError"
                             THEN RequestRaised("FileValidationError")
                        ELSE RequestRaised("TypeError")
    /\ qpc' = "done"
    /\ UNCHANGED <<request, rvars, pvars, bvars, cvars, rest_qvars>>

NextRequest ==
    \/ RequestValidate
    \/ RequestRunProcessor
    \/ RequestReturn
    \/ BatchStart
    \/ BatchRunProcessor
    \/ BatchCount
    \/ BatchReturn
    \/ Validate
    \/ Open
    \/ ComputeIndices
    \/ DeleteLoopStep
    \/ DeleteLoopEnd
    \/ RemoveBlankPages
    \/ SaveAndReturn
    \/ Handler

SpecRequest == InitRequest /\ [][NextRequest]_vars

-----------------------------------------------------------------------------
(* A DependencyContainer.  A component is named by the registration whose
   factory made it and the number of the invocation that made it (0 for the
   instance handed to register_instance). *)

Interfaces == {"IConfig", "IDisplayManager"}

NoRegistration == [kind |-> "none", id |-> 0 - 1]

NoComponent == [reg |-> 0 - 1, n |-> 0]

\* ComponentRegistration(factory=factory, singleton=True)
SingletonRegistration(id) == [kind |-> "singleton", id |-> id]

\* ComponentRegistration(factory=factory, singleton=False)
TransientRegistration(id) == [kind |-> "transient", id |-> id]

\* ComponentRegistration(factory=lambda: instance, singleton=True,
\* instance=instance)
InstanceRegistration(id) == [kind |-> "instance", id |-> id]

\* registration.singleton
IsSingleton(reg) == reg.kind \in {"singleton", "instance"}

\* registration.factory(): invocation number n of the factory; ok tells
\* whether a factory handed to register_singleton or register_transient
\* returns or raises
Factory(reg, n, ok) ==
    IF reg.kind = "instance" THEN [exc |-> "none", component |-> [reg |-> reg.id, n |-> 0]]
    ELSE IF ok THEN [exc |-> "none", component |-> [reg |-> reg.id, n |-> n]]
    ELSE [exc |-> "FactoryError", component |-> NoComponent]

\* mutant: the instance the factory of a singleton made is not cached
ResolveOutcome_MutNoCache(regs, singles, interface, n, ok) ==
    IF regs[interface].kind = "none"
    THEN [exc |-> "ValueError", component |-> NoComponent, invoked |-> FALSE,
          singletons |-> singles]
    ELSE IF IsSingleton(regs[interface]) /\ singles[interface] # NoComponent
    THEN [exc |-> "none", component |-> singles[interface], invoked |-> FALSE,
          singletons |-> singles]
    ELSE LET made == Factory(regs[interface], n, ok)
         IN [exc |-> made.exc, component |-> made.component, invoked |-> TRUE,
             singletons |-> singles]

\* resolve: the exception or the component returned, whether the factory was
\* invoked, and _singletons afterwards
ResolveOutcome(regs, singles, interface, n, ok) ==
    IF regs[interface].kind = "none"
    THEN [exc |-> "ValueError", component |-> NoComponent, invoked |-> FALSE,
          singletons |-> singles]
    ELSE IF IsSingleton(regs[interface]) /\ singles[interface] # NoComponent
    THEN [exc |-> "none", component |-> singles[interface], invoked |-> FALSE,
          singletons |-> singles]
    ELSE LET made == Factory(regs[interface], n, ok)
         IN [exc |-> made.exc, component |-> made.component, invoked |-> TRUE,
             singletons |-> IF IsSingleton(regs[interface]) /\ made.exc = "none"
                            THEN [singles EXCEPT ![interface] = made.component]
                            ELSE singles]

\* the container after __init__: _register_default_components registers every
\* interface as a singleton, nothing is resolved
InitContainer ==
    /\ registrations = [i \in Interfaces |-> SingletonRegistration(0)]
    /\ singletons = [i \in Interfaces |-> NoComponent]
    /\ next_reg = 1
    /\ factory_log = [i \in Interfaces |-> <<>>]
    /\ resolves = [i \in Interfaces |-> 0]
    /\ resolved = [i \in Interfaces |-> {}]
    /\ ops = 0
    /\ last_op = [op |-> "none"]
    /\ NotDIdle

\* what every registration does besides writing _registrations
Registered(op, interface) ==
    /\ next_reg' = next_reg + 1
    /\ factory_log' = [factory_log EXCEPT ![interface] = <<>>]
    /\ resolves' = [resolves EXCEPT ![interface] = 0]
    /\ resolved' = [resolved EXCEPT ![interface] = {}]
    /\ ops' = ops + 1
    /\ last_op' = [op |-> op, interface |-> interface]

RegisterSingleton ==
    /\ ops < MaxOps
    /\ \E interface \in Interfaces :
           /\ registrations' = [registrations EXCEPT
                                    ![interface] = SingletonRegistration(next_reg)]
           /\ Registered("register_singleton", interface)
    /\ UNCHANGED <<singletons, not_dvars>>

RegisterTransient ==
    /\ ops < MaxOps
    /\ \E interface \in Interfaces :
           /\ registrations' = [registrations EXCEPT
                                    ![interface] = TransientRegistration(next_reg)]
           /\ Registered("register_transient", interface)
    /\ UNCHANGED <<singletons, not_dvars>>

RegisterInstance ==
    /\ ops < MaxOps
    /\ \E interface \in Interfaces :
           /\ registrations' = [registrations EXCEPT
                                    ![interface] = InstanceRegistration(next_reg)]
           /\ singletons' = [singletons EXCEPT
                                 ![interface] = [reg |-> next_reg, n |-> 0]]
           /\ Registered("register_instance", interface)
    /\ UNCHANGED not_dvars

Resolve ==
    /\ ops < MaxOps
    /\ \E interface \in Interfaces, ok \in BOOLEAN :
           LET r == ResolveOutcome(registrations, singletons, interface,
                                   Len(factory_log[interface]) + 1, ok)
           IN /\ singletons' = r.singletons
              /\ factory_log' =
                     IF r.invoked
                     THEN [factory_log EXCEPT ![interface] =
                               Append(@, IF r.exc = "none" THEN "returned" ELSE "raised")]
                     ELSE factory_log
              /\ resolves' = [resolves EXCEPT ![interface] = @ + 1]
              /\ resolved' = IF r.exc = "none"
                             THEN [resolved EXCEPT ![interface] = @ \cup {r.component}]
                             ELSE resolved
              /\ last_op' = [op |-> "resolve", interface |-> interface,
                             exc |-> r.exc, component |-> r.component]
    /\ ops' = ops + 1
    /\ UNCHANGED <<registrations, next_reg, not_dvars>>

Clear ==
    /\ ops < MaxOps
    /\ registrations' = [i \in Interfaces |-> NoRegistration]
    /\ singletons' = [i \in Interfaces |-> NoComponent]
    /\ factory_log' = [i \in Interfaces |-> <<>>]
    /\ resolves' = [i \in Interfaces |-> 0]
    /\ resolved' = [i \in Interfaces |-> {}]
    /\ ops' = ops + 1
    /\ last_op' = [op |-> "clear"]
    /\ UNCHANGED <<next_reg, not_dvars>>

NextContainer ==
    \/ RegisterSingleton
    \/ RegisterTransient
    \/ RegisterInstance
    \/ Resolve
    \/ Clear

SpecContainer == InitContainer /\ [][NextContainer]_vars

-----------------------------------------------------------------------------
(* Two PDFDocument objects and the calls made on them.  The handle _doc is
   "none" (self._doc is None), "open" or "closed" (after _doc.close()). *)

DocNames == {"target", "source"}

\* self._doc is None or not self._is_open
NotOpen(d) == d.handle = "none" \/ ~d.is_open

\* what the library does when it is handed a closed document as the source
\* of insert_pdf: it is not part of this repository
ClosedSourceOutcomes == {"ValueError", "RuntimeError"}

\* close(): if self._doc and self._is_open: self._doc.close();
\* self._is_open = False
CloseDocument(d) ==
    IF d.handle # "none" /\ d.is_open
    THEN [doc |-> [d EXCEPT !.handle = "closed", !.is_open = FALSE], closed |-> 1]
    ELSE [doc |-> d, closed |-> 0]

\* __len__
DocLen(d) == IF NotOpen(d) THEN 0 ELSE Len(d.pages)

\* a PDFDocument just constructed on a file of n pages (or, n = 0, without a
\* file)
NewDocument(n) == [pages |-> [i \in 1..n |-> i - 1], is_open |-> TRUE, handle |-> "open"]

InitDocs ==
    /\ \E n \in 0..MaxPages, m \in 0..MaxPages :
           docs = [x \in DocNames |-> IF x = "target" THEN NewDocument(n)
                                      ELSE NewDocument(m)]
    /\ close_calls = [x \in DocNames |-> 0]
    /\ handle_closes = [x \in DocNames |-> 0]
    /\ doc_ops = 0
    /\ last_call = [op |-> "none"]
    /\ NotLIdle

\* a call that leaves the documents as they are
DocCalled(op, x, e) ==
    /\ last_call' = [op |-> op, doc |-> x, exc |-> e]
    /\ doc_ops' = doc_ops + 1

\* close(), also as called by __exit__ at the end of a with block
DocClose ==
    /\ doc_ops < MaxDocOps
    /\ \E x \in DocNames, op \in {"close", "exit"} :
           LET r == CloseDocument(docs[x])
           IN /\ docs' = [docs EXCEPT ![x] = r.doc]
              /\ close_calls' = [close_calls EXCEPT ![x] = @ + 1]
              /\ handle_closes' = [handle_closes EXCEPT ![x] = @ + r.closed]
              /\ DocCalled(op, x, "none")
    /\ UNCHANGED not_lvars

\* is_open and len()
DocQuery ==
    /\ doc_ops < MaxDocOps
    /\ \E x \in DocNames :
           /\ last_call' = [op |-> "query", doc |-> x, exc |-> "none",
                            is_open |-> docs[x].is_open, len |-> DocLen(docs[x])]
           /\ doc_ops' = doc_ops + 1
    /\ UNCHANGED <<docs, close_calls, handle_closes, not_lvars>>

DocSave ==
    /\ doc_ops < MaxDocOps
    /\ \E x \in DocNames :
           DocCalled("save", x, IF NotOpen(docs[x]) THEN "RuntimeError" ELSE "none")
    /\ UNCHANGED <<docs, close_calls, handle_closes, not_lvars>>

\* doc[page_num]
DocGetItem ==
    /\ doc_ops < MaxDocOps
    /\ \E x \in DocNames, page_num \in 0..MaxPages :
           DocCalled("getitem", x, GetItem(docs[x].pages, ~NotOpen(docs[x]), page_num))
    /\ UNCHANGED <<docs, close_calls, handle_closes, not_lvars>>

DocDeletePage ==
    /\ doc_ops < MaxDocOps
    /\ \E x \in DocNames, page_num \in 0..MaxPages :
           LET r == DeletePage(docs[x].pages, ~NotOpen(docs[x]), page_num)
           IN /\ docs' = [docs EXCEPT ![x].pages = r.doc]
              /\ DocCalled("delete_page", x, r.exc)
    /\ UNCHANGED <<close_calls, handle_closes, not_lvars>>

DocNewPage ==
    /\ doc_ops < MaxDocOps
    /\ \E x \in DocNames :
           IF NotOpen(docs[x]) THEN
               /\ DocCalled("new_page", x, "RuntimeError")
               /\ UNCHANGED docs
           ELSE
               /\ docs' = [docs EXCEPT ![x].pages = Append(@, Len(@))]
               /\ DocCalled("new_page", x, "none")
    /\ UNCHANGED <<close_calls, handle_closes, not_lvars>>

\* target.insert_pdf(source): the check of the target, the check of the
\* source, the call of the library
DocInsertPdf ==
    /\ doc_ops < MaxDocOps
    /\ IF NotOpen(docs["target"]) THEN
           /\ DocCalled("insert_pdf", "target", "RuntimeError")
           /\ UNCHANGED docs
       ELSE IF docs["source"].handle = "none" THEN
           /\ DocCalled("insert_pdf", "target", "RuntimeError")
           /\ UNCHANGED docs
       ELSE IF docs["source"].handle = "closed" THEN
           /\ \E e \in ClosedSourceOutcomes : DocCalled("insert_pdf", "target", e)
           /\ UNCHANGED docs
       ELSE
           /\ docs' = [docs EXCEPT !["target"].pages =
                           [i \in 1..(Len(@) + Len(docs["source"].pages)) |-> i - 1]]
           /\ DocCalled("insert_pdf", "target", "none")
    /\ UNCHANGED <<close_calls, handle_closes, not_lvars>>

NextDocs ==
    \/ DocClose
    \/ DocQuery
    \/ DocSave
    \/ DocGetItem
    \/ DocDeletePage
    \/ DocNewPage
    \/ DocInsertPdf

SpecDocs == InitDocs /\ [][NextDocs]_vars

-----------------------------------------------------------------------------
(* One call of ApplicationController.run *)

AppReturned(code) == [kind |-> "returned", code |-> code]

\* SystemExit(code) leaves run
AppSystemExit(code) == [kind |-> "SystemExit", code |-> code]

\* what handle_arguments_with_result returns: CLIResult(should_exit=True,
\* exit_code=0) when help or the version was asked for
CliResultOf(help, a) ==
    IF help THEN CliExit(0) ELSE HandleArgumentsWithResult(a)

\* mutant: invalid arguments are answered with the exit code
ParseArguments_MutReturnsCode(res) ==
    IF res.should_exit
    THEN AppReturned(res.exit_code)
    ELSE [kind |-> "parsed", code |-> 0]

\* _parse_arguments and the test of its value in run: the exit of run, or
\* "parsed"
ParseArguments(res) ==
    IF res.should_exit
    THEN IF res.exit_code = 0 THEN AppReturned(0) ELSE AppSystemExit(res.exit_code)
    ELSE [kind |-> "parsed", code |-> 0]

\* return 0 if success else 1
ExitCode(ok) == IF ok THEN 0 ELSE 1

\* workflow_manager.process_workflow for the search operation: an exception
\* is caught by _execute_workflow and gives False
SearchWorkflow(is_batch_mode, dir_ok, files, file) ==
    IF ~dir_ok THEN FALSE
    ELSE IF is_batch_mode
    THEN \A i \in 1..Len(files) : ProcessPdf(files[i].ok) = "returned: success=True"
    ELSE ProcessPdf(file.ok) = "returned: success=True"

AppSpecs == {<<"1">>, <<"a">>}

NoFile == [ok |-> FALSE, pages |-> 0]

\* the files the controller is run on: whether a file passes
\* validate_input_file, and its pages
AppFiles == [ok : BOOLEAN, pages : {0, 2}]

NoCommandLine ==
    [delete |-> "absent", keep |-> "absent", search |-> "absent",
     before |-> None, after |-> None, file |-> FALSE]

AppInput(help, s, ok, f, fl) ==
    [help |-> help, delete_spec |-> s, dir_ok |-> ok, file |-> f, files |-> fl]

\* the command line, and for a command line that is accepted the output
\* directory, the file named (single file) or the files found (batch)
InitApp ==
    /\ \/ /\ cli_args = NoCommandLine
          /\ app = AppInput(TRUE, <<"1">>, FALSE, NoFile, <<>>)
       \/ \E a \in CommandLines :
              LET res == CliResultOf(FALSE, a) IN
              /\ cli_args = a
              /\ IF res.should_exit THEN
                     app = AppInput(FALSE, <<"1">>, FALSE, NoFile, <<>>)
                 ELSE \E ok \in BOOLEAN,
                         s \in (IF res.operation = "delete" THEN AppSpecs ELSE {<<"1">>}) :
                     IF res.is_batch_mode
                     THEN \E len \in 0..MaxFiles : \E fl \in [1..len -> AppFiles] :
                              app = AppInput(FALSE, s, ok, NoFile, fl)
                     ELSE \E f \in AppFiles :
                              app = AppInput(FALSE, s, ok, f, <<>>)
    /\ cpc = "ready"
    /\ cli_result = CliParsed("none", FALSE, FALSE)
    /\ apc = "parse"
    /\ success = "none"
    /\ aresult = [kind |-> "none", code |-> 0]
    /\ RIdle
    /\ PIdle
    /\ BIdle
    /\ SIdle
    /\ TIdle
    /\ QIdle
    /\ DIdle
    /\ LIdle

\* parsed_args = self._parse_arguments(args); if parsed_args is None: return 0
AppParseArguments ==
    /\ apc = "parse"
    /\ cli_result' = CliResultOf(app.help, cli_args)
    /\ cpc' = "done"
    /\ LET r == ParseArguments(cli_result') IN
           IF r.kind = "parsed"
           THEN /\ apc' = "execute"
                /\ UNCHANGED aresult
           ELSE /\ apc' = "done"
                /\ aresult' = r
    /\ UNCHANGED <<cli_args, app, success, rvars, pvars, bvars, rest_avars>>

\* the processor method _execute_workflow calls on a file
ControllerJob(f) ==
    Job(cli_result.operation,
        IF cli_result.operation = "delete" THEN app.delete_spec ELSE <<>>,
        cli_args.before, cli_args.after, FALSE, f.ok, f.pages)

\* _execute_workflow up to its first call of the processor or to its return;
\* run then returns 0 if success else 1
AppExecuteWorkflow ==
    /\ apc = "execute"
    /\ IF cli_result.operation = "search" THEN
           /\ success' = SearchWorkflow(cli_result.is_batch_mode, app.dir_ok,
                                        app.files, app.file)
           /\ aresult' = AppReturned(ExitCode(success'))
           /\ apc' = "done"
           /\ UNCHANGED <<pvars, pdf_files, file_pos>>
       ELSE IF cli_result.is_batch_mode THEN
           IF app.files = <<>> THEN
               /\ success' = TRUE
               /\ aresult' = AppReturned(ExitCode(TRUE))
               /\ apc' = "done"
               /\ UNCHANGED <<pvars, pdf_files, file_pos>>
           ELSE
               /\ pdf_files' = app.files
               /\ file_pos' = 1
               /\ apc' = "loop"
               /\ UNCHANGED <<pvars, success, aresult>>
       ELSE
           /\ job' = ControllerJob(app.file)
           /\ ppc' = "start"
           /\ apc' = "call"
           /\ UNCHANGED <<doc, is_open, doc_page_count, indices_to_delete, loop_pos,
                          exc, saved, result, pdf_files, file_pos, success, aresult>>
    /\ UNCHANGED <<app, breq, bpc, handed, successful, failed, bresult,
                   rvars, cvars, rest_avars>>

\* one pass of for pdf_file in pdf_files up to the call of the processor, or
\* the end of the loop: return True if failed == 0, else False
AppBatchLoop ==
    /\ apc = "loop"
    /\ IF file_pos <= Len(pdf_files) THEN
           /\ job' = ControllerJob(pdf_files[file_pos])
           /\ ppc' = "start"
           /\ doc' = <<>>
           /\ is_open' = FALSE
           /\ doc_page_count' = 0
           /\ indices_to_delete' = <<>>
           /\ loop_pos' = 0
           /\ exc' = "none"
           /\ saved' = <<>>
           /\ result' = "none"
           /\ apc' = "call"
           /\ UNCHANGED <<success, aresult>>
       ELSE
           /\ success' = NoFileFailed(successful, failed)
           /\ aresult' = AppReturned(ExitCode(success'))
           /\ apc' = "done"
           /\ UNCHANGED pvars
    /\ UNCHANGED <<app, breq, pdf_files, bpc, file_pos, handed, successful, failed,
                   bresult, rvars, cvars, rest_avars>>

\* the processor is back: its result is counted (batch) or decides the value
\* (single file); an exception it raised is caught by except Exception of
\* _execute_workflow, which returns False
AppProcessorBack ==
    /\ apc = "call"
    /\ ppc = "done"
    /\ IF result \notin {"returned: success=True", "returned: success=False"} THEN
           /\ success' = FALSE
           /\ aresult' = AppReturned(ExitCode(FALSE))
           /\ apc' = "done"
           /\ UNCHANGED <<file_pos, successful, failed>>
       ELSE IF cli_result.is_batch_mode THEN
           /\ successful' = IF result = "returned: success=True"
                             THEN successful + 1 ELSE successful
           /\ failed' = IF result = "returned: success=True" THEN failed ELSE failed + 1
           /\ file_pos' = file_pos + 1
           /\ apc' = "loop"
           /\ UNCHANGED <<success, aresult>>
       ELSE
           /\ success' = (result = "returned: success=True")
           /\ aresult' = AppReturned(ExitCode(success'))
           /\ apc' = "done"
           /\ UNCHANGED <<file_pos, successful, failed>>
    /\ UNCHANGED <<app, breq, pdf_files, bpc, handed, bresult, rvars, pvars, cvars,
                   rest_avars>>

\* except KeyboardInterrupt: return 130
AppKeyboardInterrupt ==
    /\ apc \in {"parse", "execute", "loop", "call"}
    /\ aresult' = AppReturned(130)
    /\ apc' = "done"
    /\ UNCHANGED <<app, success, rvars, pvars, bvars, cvars, rest_avars>>

NextApp ==
    \/ AppParseArguments
    \/ AppExecuteWorkflow
    \/ AppBatchLoop
    \/ AppProcessorBack
    \/ AppKeyboardInterrupt
    \/ Validate
    \/ Open
    \/ ComputeIndices
    \/ DeleteLoopStep
    \/ DeleteLoopEnd
    \/ RemoveBlankPages
    \/ SaveAndReturn
    \/ Handler

SpecApp == InitApp /\ [][NextApp]_vars

Done(op) == rpc = "done" /\ call.op = op

\* the strictly descending lists: sorted, hence also free of duplicates
StrictlyDescending(seq) == \A i \in 1..(Len(seq) - 1) : seq[i] > seq[i + 1]

-----------------------------------------------------------------------------
(* C1 *)

\* C1: for page_count >= 1, the list parse_delete_spec returns is strictly
\* descending (so without duplicates) and every element is in 0..page_count-1
C1_ParseIndicesUniqueDescInRange ==
    (Done("parse_delete_spec") /\ call.page_count >= 1 /\ outcome.kind = "ok")
        => /\ StrictlyDescending(outcome.indices)
           /\ \A i \in 1..Len(outcome.indices) : \A j \in 1..Len(outcome.indices) :
                  i # j => outcome.indices[i] # outcome.indices[j]
           /\ \A i \in 1..Len(outcome.indices) :
                  0 <= outcome.indices[i] /\ outcome.indices[i] < call.page_count

\* a specification with a repeated page and tokens out of order was accepted
C1_Witness ==
    /\ Done("parse_delete_spec")
    /\ outcome.kind = "ok"
    /\ call.spec = <<"2", ",", "1", "-", "2">>
    /\ call.page_count = 3
    /\ outcome.indices = <<1, 0>>

-----------------------------------------------------------------------------
(* C2 *)

\* the pages of the input file
OriginalPages == [i \in 1..job.pages |-> i - 1]

\* seq without the elements that are in the set gone, the order kept
Without(seq, gone) ==
    LET Stays(x) == x \notin gone IN SelectSeq(seq, Stays)

\* C2: every delete_page call of the delete loop gets an index that is in range
\* for the document at that moment (the call raises nothing); during the loop
\* the document is the original pages without those already passed to
\* delete_page, and after the loop it is exactly the original pages whose index
\* is not in indices_to_delete, in their original order
C2_DeleteLoopSafe ==
    /\ exc \notin {"IndexError", "RuntimeError"}
    /\ (ppc = "loop" /\ loop_pos <= Len(indices_to_delete))
           => /\ DeletePage(doc, is_open,
                            LoopIndex(indices_to_delete, loop_pos)).exc = "none"
              /\ doc = Without(OriginalPages,
                               ToSet(SubSeq(indices_to_delete, 1, loop_pos - 1)))
    /\ ppc = "after_loop"
           => /\ loop_pos = Len(indices_to_delete) + 1
              /\ doc = Without(OriginalPages, ToSet(indices_to_delete))
              /\ Len(doc) = job.pages - Len(indices_to_delete)

\* pages 1 and 3 of a 3-page document were deleted one by one, page 2 is left
C2_Witness ==
    /\ ppc = "after_loop"
    /\ job.pages = 3
    /\ indices_to_delete = <<2, 0>>
    /\ doc = <<1>>

-----------------------------------------------------------------------------
(* C3 *)

Reverse(seq) == [i \in 1..Len(seq) |-> seq[Len(seq) + 1 - i]]

\* C3: an accepted specification written out from the tokens tl yields exactly
\* the indices p - 1 of the pages p the tokens denote (N denotes N, A-B denotes
\* A..B); the tokens in the opposite order, or each token written twice, yield
\* the same list
C3_ParseDenotesTokens ==
    (Done("parse_delete_spec") /\ call.tokens # <<>> /\ outcome.kind = "ok")
        => /\ ToSet(outcome.indices) = {p - 1 : p \in PagesOf(call.tokens)}
           /\ ParseDeleteSpec(Render(Reverse(call.tokens)), call.page_count) = outcome
           /\ ParseDeleteSpec(Render(call.tokens \o call.tokens), call.page_count)
                  = outcome

\* '1-3,2' was accepted on a 3-page document and gave [2, 1, 0]
C3_Witness ==
    /\ Done("parse_delete_spec")
    /\ call.spec = <<"1", "-", "3", ",", "2">>
    /\ call.tokens # <<>>
    /\ outcome.kind = "ok"
    /\ outcome.indices = <<2, 1, 0>>

-----------------------------------------------------------------------------
(* C4 *)

\* C4: with invert_selection=True an accepted call returns (delete, keep) that
\* are disjoint and together are 0..page_count-1; a keep specification that
\* covers every page gives an empty delete list
C4_InvertIsComplement ==
    (Done("compute_indices_to_delete") /\ call.invert_selection
         /\ outcome.kind = "ok")
        => /\ outcome.has_keep
           /\ ToSet(outcome.indices) \cap ToSet(outcome.keep) = {}
           /\ ToSet(outcome.indices) \cup ToSet(outcome.keep)
                  = 0..(call.page_count - 1)
           /\ (ToSet(outcome.keep) = 0..(call.page_count - 1)
                  => outcome.indices = <<>>)

\* keep page 2 of 3: delete [2, 0], keep [1]
C4_Witness ==
    /\ Done("compute_indices_to_delete")
    /\ call.invert_selection
    /\ call.page_count = 3
    /\ outcome.kind = "ok"
    /\ outcome.indices = <<2, 0>>
    /\ outcome.keep = <<1>>

-----------------------------------------------------------------------------
(* C5 *)

\* C5: compute_indices_to_delete against parse_delete_spec on the same spec and
\* page_count: the same exception when parse raises (so PageSpecError exactly
\* when parse raises PageSpecError); (parse result, None) without inversion;
\* with inversion the indices of 0..page_count-1 outside the parse result,
\* strictly descending, and the parse result itself as the keep list
C5_ComputeAgreesWithParse ==
    Done("compute_indices_to_delete")
        => LET parsed == ParseDeleteSpec(call.spec, call.page_count) IN
           /\ (outcome.kind = "PageSpecError") <=> (parsed.kind = "PageSpecError")
           /\ (outcome.kind = "ok") <=> (parsed.kind = "ok")
           /\ parsed.kind # "ok" => outcome = parsed
           /\ (parsed.kind = "ok" /\ ~call.invert_selection)
                  => /\ outcome.indices = parsed.indices
                     /\ ~outcome.has_keep
           /\ (parsed.kind = "ok" /\ call.invert_selection)
                  => /\ StrictlyDescending(outcome.indices)
                     /\ ToSet(outcome.indices)
                            = (0..(call.page_count - 1)) \ ToSet(parsed.indices)
                     /\ outcome.has_keep
                     /\ outcome.keep = parsed.indices
                     /\ StrictlyDescending(outcome.keep)

\* an inverted call on an accepted specification that leaves pages to delete
C5_Witness ==
    /\ Done("compute_indices_to_delete")
    /\ call.invert_selection
    /\ call.spec = <<"2", "-", "3">>
    /\ call.page_count = 3
    /\ outcome.kind = "ok"
    /\ outcome.indices = <<0>>
    /\ outcome.keep = <<2, 1>>

-----------------------------------------------------------------------------
(* C6, C7 *)

\* C6: for page_count >= 1 and 1 <= before_page <= page_count + 1 the result is
\* [before_page-2, ..., 0]: empty for before_page = 1, all page_count indices
\* for before_page = page_count + 1
C6_IndicesBeforePage ==
    (Done("indices_before_page") /\ call.page_count >= 1
         /\ 1 <= call.page /\ call.page <= call.page_count + 1)
        => /\ outcome.kind = "ok"
           /\ outcome.indices = [i \in 1..(call.page - 1) |-> call.page - 1 - i]
           /\ (call.page = 1 => outcome.indices = <<>>)
           /\ (call.page = call.page_count + 1
                  => ToSet(outcome.indices) = 0..(call.page_count - 1))

\* before page 3 of 3 gave [1, 0]
C6_Witness ==
    /\ Done("indices_before_page")
    /\ call.page = 3
    /\ call.page_count = 3
    /\ outcome.kind = "ok"
    /\ outcome.indices = <<1, 0>>

\* C7: for page_count >= 1 and 1 <= after_page <= page_count the result is
\* [page_count-1, ..., after_page]: empty for after_page = page_count
C7_IndicesAfterPage ==
    (Done("indices_after_page") /\ call.page_count >= 1
         /\ 1 <= call.page /\ call.page <= call.page_count)
        => /\ outcome.kind = "ok"
           /\ outcome.indices
                  = [i \in 1..(call.page_count - call.page) |-> call.page_count - i]
           /\ (call.page = call.page_count => outcome.indices = <<>>)

\* after page 1 of 3 gave [2, 1]
C7_Witness ==
    /\ Done("indices_after_page")
    /\ call.page = 1
    /\ call.page_count = 3
    /\ outcome.kind = "ok"
    /\ outcome.indices = <<2, 1>>

-----------------------------------------------------------------------------
(* C8, C9 *)

OutOfBoundsArg ==
    \/ Done("indices_before_page")
           /\ (call.page < 1 \/ call.page > call.page_count + 1)
    \/ Done("indices_after_page")
           /\ (call.page < 1 \/ call.page > call.page_count)

\* C8 as stated: for every page_count >= 0 an out-of-bounds before_page or
\* after_page raises PageSpecError
C8_Original_OutOfBoundsAlwaysRaises ==
    (OutOfBoundsArg /\ call.page_count >= 0) => outcome.kind = "PageSpecError"

\* C8 amended: for every page_count >= 1 an out-of-bounds before_page (< 1 or
\* > page_count + 1) or after_page (< 1 or > page_count) raises PageSpecError
C8_OutOfBoundsRaises ==
    (OutOfBoundsArg /\ call.page_count >= 1) => outcome.kind = "PageSpecError"

\* after_page = page_count + 1 on a document with pages was rejected
C8_Witness ==
    /\ Done("indices_after_page")
    /\ call.page_count = 2
    /\ call.page = 3
    /\ outcome.kind = "PageSpecError"

\* C9: with page_count = 0 both operations return the empty list without
\* raising, whatever before_page or after_page is
C9_EmptyDocumentReturnsEmpty ==
    ((Done("indices_before_page") \/ Done("indices_after_page"))
         /\ call.page_count = 0)
        => outcome = Returned(<<>>, FALSE, <<>>)

\* before_page = 0 on an empty document returned []
C9_Witness ==
    /\ Done("indices_before_page")
    /\ call.page_count = 0
    /\ call.page = 0
    /\ outcome.kind = "ok"
    /\ outcome.indices = <<>>

-----------------------------------------------------------------------------
(* C10 *)

\* sub occurs in seq as consecutive pieces
ContainsSub(seq, sub) ==
    \E i \in 0..(Len(seq) - Len(sub)) : SubSeq(seq, i + 1, i + Len(sub)) = sub

EndsWith(seq, suffix) ==
    /\ Len(suffix) <= Len(seq)
    /\ SubSeq(seq, Len(seq) - Len(suffix) + 1, Len(seq)) = suffix

\* some bare page number or range endpoint written in spec (a run of decimal
\* digits between commas and hyphens, blanks around it aside) exceeds page_count
ExceedsPageCount(spec, page_count) ==
    LET items == Split(Strip(spec), ",") IN
    \E k \in 1..Len(items) :
        LET parts == Split(items[k], "-") IN
        \E j \in 1..Len(parts) :
            LET piece == Strip(parts[j]) IN
            piece # <<>> /\ IntConvertible(piece) /\ IntOf(piece) > page_count

\* the specification is made of ASCII characters
IsAscii(spec) == \A i \in 1..Len(spec) : spec[i] # SupTwo

\* C10 as stated, on specifications of ASCII characters: whenever a page number
\* or range endpoint exceeds page_count the call raises PageSpecError and the
\* text of the error contains the value of page_count
C10_Original_MessageAlwaysHasPageCount ==
    (Done("parse_delete_spec") /\ call.page_count >= 0 /\ IsAscii(call.spec)
         /\ ExceedsPageCount(call.spec, call.page_count))
        => /\ outcome.kind = "PageSpecError"
           /\ ContainsSub(outcome.msg, Format(call.page_count))

\* C10 amended: whenever a page number or range endpoint exceeds page_count the
\* call returns no indices (it raises); when moreover page_count >= 1 and every
\* token is a page number N >= 1 or a range A-B with 1 <= A <= B, it raises
\* PageSpecError and the text ends "out of bounds (document has <page_count>
\* pages)"
C10_NeverClamps ==
    Done("parse_delete_spec")
        => /\ ExceedsPageCount(call.spec, call.page_count) => outcome.kind # "ok"
           /\ (call.tokens # <<>> /\ call.page_count >= 1
                   /\ \E i \in 1..Len(call.tokens) :
                          call.tokens[i].hi > call.page_count)
                  => /\ outcome.kind = "PageSpecError"
                     /\ outcome.indices = <<>>
                     /\ EndsWith(outcome.msg,
                                 <<" out of bounds (document has ">>
                                     \o Format(call.page_count) \o <<" pages)">>)

\* '1-4' on a 3-page document: pages 1..3 exist, the call raised with the page
\* count in the text
C10_Witness ==
    /\ Done("parse_delete_spec")
    /\ call.spec = <<"1", "-", "4">>
    /\ call.tokens # <<>>
    /\ call.page_count = 3
    /\ outcome.kind = "PageSpecError"
    /\ outcome.msg = <<"Range '", "1", "-", "4", "'", " out of bounds (document has ",
                       "3", " pages)">>

-----------------------------------------------------------------------------
(* C11 *)

\* piece, blanks around it aside, is a run of ASCII decimal digits of value >= 1
IsPositiveInteger(piece) ==
    LET p == Strip(piece) IN p # <<>> /\ IntConvertible(p) /\ IntOf(p) >= 1

\* the token is a bare integer N >= 1 or exactly A-B with 1 <= A <= B
WellFormedToken(token) ==
    LET parts == Split(Strip(token), "-") IN
    \/ Len(parts) = 1 /\ IsPositiveInteger(parts[1])
    \/ /\ Len(parts) = 2
       /\ IsPositiveInteger(parts[1])
       /\ IsPositiveInteger(parts[2])
       /\ IntOf(Strip(parts[1])) <= IntOf(Strip(parts[2]))

\* the tokens of spec: the pieces between its commas
TokensOf(spec) == Split(Strip(spec), ",")

\* the positions of the malformed tokens: empty, neither N nor A-B (missing
\* start or end, several hyphens, a character that is no decimal digit), an
\* integer below 1, a range with end < start
MalformedTokens(spec) ==
    {k \in 1..Len(TokensOf(spec)) : ~WellFormedToken(TokensOf(spec)[k])}

\* C11 as stated: parse_delete_spec raises PageSpecError for every
\* specification with at least one malformed token, whatever the other tokens
C11_MalformedTokenRaisesPageSpecError ==
    (Done("parse_delete_spec") /\ MalformedTokens(call.spec) # {})
        => outcome.kind = "PageSpecError"

\* C11 where every character of the specification is ASCII: the malformed
\* token always leads to PageSpecError
C11_AsciiMalformedTokenRaises ==
    (Done("parse_delete_spec") /\ IsAscii(call.spec)
         /\ MalformedTokens(call.spec) # {})
        => outcome.kind = "PageSpecError"

\* '1,,2' on a 3-page document raised PageSpecError for the empty token
C11_AsciiWitness ==
    /\ Done("parse_delete_spec")
    /\ call.spec = <<"1", ",", ",", "2">>
    /\ call.page_count = 3
    /\ outcome = PageSpecError(<<"Invalid delete specification: empty item">>)

-----------------------------------------------------------------------------
(* C12 *)

\* C12: with page_count = 0, parse_delete_spec raises the empty-document
\* PageSpecError for every specification that is not empty (after trimming),
\* whether its tokens are well-formed or malformed
C12_EmptyDocumentErrorFirst ==
    (Done("parse_delete_spec") /\ call.page_count = 0 /\ Strip(call.spec) # <<>>)
        => outcome = PageSpecError(<<"Cannot delete pages from an empty document">>)

\* '1,,2', a specification with a malformed token, on an empty document raised
\* the empty-document error
C12_Witness ==
    /\ Done("parse_delete_spec")
    /\ call.page_count = 0
    /\ call.spec = <<"1", ",", ",", "2">>
    /\ MalformedTokens(call.spec) # {}
    /\ outcome = PageSpecError(<<"Cannot delete pages from an empty document">>)

-----------------------------------------------------------------------------
(* C13 *)

\* C13 as stated: a call of any of the four resolver operations returns an
\* index list or raises PageSpecError, and raises no other exception type
C13_OnlyPageSpecError ==
    rpc = "done" => outcome.kind \in {"ok", "PageSpecError"}

\* C13 where every character of the specification is ASCII
C13_AsciiOnlyPageSpecError ==
    (rpc = "done" /\ IsAscii(call.spec)) => outcome.kind \in {"ok", "PageSpecError"}

-----------------------------------------------------------------------------
(* C14 *)

\* the token is malformed or names a page beyond page_count
InvalidToken(token, page_count) ==
    ~WellFormedToken(token) \/ ExceedsPageCount(token, page_count)

InvalidTokens(spec, page_count) ==
    {k \in 1..Len(TokensOf(spec)) : InvalidToken(TokensOf(spec)[k], page_count)}

\* the position of the leftmost invalid token
LeftmostInvalid(spec, page_count) ==
    CHOOSE k \in InvalidTokens(spec, page_count) :
        \A j \in InvalidTokens(spec, page_count) : k <= j

\* the first k tokens joined by commas again
RECURSIVE JoinTokens(_, _)
JoinTokens(items, k) ==
    IF k = 1 THEN items[1] ELSE JoinTokens(items, k - 1) \o <<",">> \o items[k]

\* C14: on a document with pages and a specification that is not empty, the
\* exception parse_delete_spec raises is the one of the leftmost invalid token
\* (malformed or out of bounds), and it is also the outcome when everything to
\* the right of that token is replaced by the valid token '1': the tokens to
\* its right are not examined
C14_LeftmostInvalidTokenRaises ==
    (Done("parse_delete_spec") /\ call.page_count >= 1 /\ Strip(call.spec) # <<>>
         /\ InvalidTokens(call.spec, call.page_count) # {})
        => LET k == LeftmostInvalid(call.spec, call.page_count)
               items == TokensOf(call.spec)
           IN  /\ outcome.kind # "ok"
               /\ outcome = ParseItem(items[k], call.page_count)
               /\ outcome = ParseDeleteSpec(JoinTokens(items, k) \o <<",", "1">>,
                                            call.page_count)

\* '0,a' on a 1-page document: both tokens are invalid, the error is the one
\* of '0'
C14_Witness ==
    /\ Done("parse_delete_spec")
    /\ call.spec = <<"0", ",", "a">>
    /\ call.page_count = 1
    /\ InvalidTokens(call.spec, call.page_count) = {1, 2}
    /\ outcome = PageSpecError(<<"page number", " must be >= ", "1">>)

-----------------------------------------------------------------------------
(* C16 *)

\* the method is over and the deletion set it computed covers every page of a
\* document with pages
CoversEveryPage ==
    /\ ppc = "done"
    /\ job.pages >= 1
    /\ ToSet(indices_to_delete) = 0..(job.pages - 1)

\* C16 as stated, on documents with pages: if the computed deletion set covers
\* every page, the method returns a result with success = False, has deleted
\* no page and has saved no output file
C16_RefusesToDeleteEveryPage ==
    CoversEveryPage
        => /\ result = "returned: success=False"
           /\ doc = OriginalPages
           /\ saved = <<>>

\* what the code does in that case: no page is deleted and no file is saved,
\* and the method raises TypeError to its caller
C16_NothingDeletedButRaises ==
    CoversEveryPage
        => /\ result = "raised: TypeError"
           /\ doc = OriginalPages
           /\ saved = <<>>

\* before_page = page_count + 1 on a 2-page document
C16_BeforePageWitness ==
    /\ CoversEveryPage
    /\ job.op = "before_after"
    /\ job.pages = 2
    /\ job.before_page = Some(3)
    /\ ~job.invert_selection
    /\ doc = <<0, 1>>

-----------------------------------------------------------------------------
(* C18 *)

-----------------------------------------------------------------------------
(* C20 *)

\* C20 as stated: the method never propagates an exception to its caller, it
\* returns a result; when anything failed the result has success = False
C20_NeverPropagates ==
    ppc = "done" => result \in {"returned: success=False", "returned: success=True"}

\* the PageSpecError case reaches the except clause with no page deleted and
\* no output file saved
C20_PageSpecErrorLeavesDocument ==
    (ppc = "handler" /\ exc = "PageSpecError")
        => /\ doc = OriginalPages
           /\ saved = <<>>
           /\ ~is_open

\* the specification '0' raised PageSpecError on a 2-page document
C20_PageSpecErrorWitness ==
    /\ ppc = "handler"
    /\ exc = "PageSpecError"
    /\ job.delete_spec = <<"0">>
    /\ job.pages = 2

-----------------------------------------------------------------------------
(* C17 *)

\* the batch run is over, the output directory was there and files were found
BatchOver == bpc = "done" /\ breq.dir_ok /\ pdf_files # <<>>

\* C17 as stated: every file found is handed to the processor exactly once, in
\* list order, whether or not earlier files failed, and the method returns
\* with successful + failed equal to the number of files found
C17_EveryFileHandedOnceAndCounted ==
    BatchOver
        => /\ bresult = "returned"
           /\ handed = [i \in 1..Len(pdf_files) |-> i]
           /\ successful + failed = Len(pdf_files)

\* what the code does for the two page deletion operations: the first file is
\* handed to the processor, its TypeError leaves the batch run, no file is
\* counted and the other files are never handed over
C17_DeleteBatchStopsAtFirstFile ==
    (BatchOver /\ breq.op # "search")
        => /\ bresult = "raised: TypeError"
           /\ handed = <<1>>
           /\ successful = 0
           /\ failed = 0

\* the claim holds for the search operation, whose processor method catches
\* every exception
C17_SearchBatchCountsEveryFile ==
    (BatchOver /\ breq.op = "search")
        => /\ bresult = "returned"
           /\ handed = [i \in 1..Len(pdf_files) |-> i]
           /\ successful + failed = Len(pdf_files)

\* at every moment the files handed over are the first ones of the list, each
\* once, in order
C17_HandedInListOrder ==
    /\ handed = [i \in 1..Len(handed) |-> i]
    /\ Len(handed) <= Len(pdf_files)

\* delete specification '3' over a 2-page file and a 3-page file: the run is
\* over after the first file
C17_DeleteWitness ==
    /\ BatchOver
    /\ breq.op = "delete"
    /\ breq.delete_spec = <<"3">>
    /\ Len(pdf_files) = 2
    /\ pdf_files[1] = [ok |-> TRUE, pages |-> 2]
    /\ pdf_files[2] = [ok |-> TRUE, pages |-> 3]
    /\ handed = <<1>>

-----------------------------------------------------------------------------
(* C19 *)

C19_RejectedWitness ==
    /\ cpc = "done"
    /\ cli_args = [delete |-> "absent", keep |-> "absent", search |-> "absent",
                   before |-> Some(3), after |-> None, file |-> FALSE]
    /\ cli_result = CliExit(1)

-----------------------------------------------------------------------------
(* C21 *)

\* both before_page and after_page are given and valid for the opened document,
\* and the indices have been computed
BothGivenAndComputed ==
    /\ job.op = "before_after"
    /\ job.file_ok
    /\ job.before_page.some
    /\ job.after_page.some
    /\ job.pages >= 1
    /\ job.before_page.v \in 1..(job.pages + 1)
    /\ job.after_page.v \in 1..job.pages
    /\ ppc \notin {"start", "open", "compute"}

\* the indices of pages 1..before_page-1 together with after_page+1..page_count
BaseIndexSet ==
    {i \in 0..(job.pages - 1) : i + 1 < job.before_page.v \/ i + 1 > job.after_page.v}

\* the set to delete: the base set, or with invert_selection its complement
ExpectedDeletionSet ==
    IF job.invert_selection THEN (0..(job.pages - 1)) \ BaseIndexSet ELSE BaseIndexSet

\* C21: with both before_page and after_page given, the indices to delete are
\* the union of the pages before before_page and the pages after after_page,
\* or with invert_selection its complement in [0, page_count); the list passed
\* to delete_page is strictly descending (so without duplicates), and after
\* the delete loop the document is the original without exactly those pages
C21_BeforeAfterUnionAndInversion ==
    BothGivenAndComputed
        => /\ ToSet(indices_to_delete) = ExpectedDeletionSet
           /\ StrictlyDescending(indices_to_delete)
           /\ ppc = "after_loop" => doc = Without(OriginalPages, ExpectedDeletionSet)

\* before_page = 2 and after_page = 2 on a 3-page document, inverted: page 2 is
\* the complement of the base set {1, 3} and was deleted
C21_Witness ==
    /\ BothGivenAndComputed
    /\ ppc = "after_loop"
    /\ job.pages = 3
    /\ job.before_page = Some(2)
    /\ job.after_page = Some(2)
    /\ job.invert_selection
    /\ indices_to_delete = <<1>>
    /\ doc = <<0, 2>>

-----------------------------------------------------------------------------
(* C22 *)

\* the pages of seq that fulfil Keep, the order kept
NonBlankPages(seq) ==
    LET Keep(pg) == ~pg.blank IN SelectSeq(seq, Keep)

BlankCount(seq) == Len(seq) - Len(NonBlankPages(seq))

\* C22 as stated: when _remove_blank_pages is over it has returned the number
\* of pages that were blank at the call, the document consists of the pages
\* that were not blank in their original order, and no delete_page call was
\* out of range
C22_RemovesExactlyTheBlankPages ==
    spc = "done"
        => /\ sresult = ScanReturned(BlankCount(sdoc_in))
           /\ sdoc = NonBlankPages(sdoc_in)

\* what the code does on a document with pages: the first doc[page_num]
\* raises TypeError, nothing is removed
C22_RaisesOnFirstPage ==
    (spc = "done" /\ sdoc_in # <<>>)
        => /\ sresult = ScanRaised("TypeError")
           /\ sdoc = sdoc_in
           /\ scan_page_num = Len(sdoc_in) - 1

\* a document of a blank page and a page with text: the call raised
C22_RaisedWitness ==
    /\ spc = "done"
    /\ sdoc_in = <<[name |-> 0, blank |-> TRUE], [name |-> 1, blank |-> FALSE]>>
    /\ sresult = ScanRaised("TypeError")

-----------------------------------------------------------------------------
(* C23 *)

\* the whole pages lo..hi of the source, in order
WholePages(source, lo, hi) ==
    [k \in 1..(IF hi >= lo THEN hi - lo + 1 ELSE 0) |-> CopiedPage(source, lo + k - 1)]

\* a page holds the part `part` of source page i
IsPartOf(pg, source, i, part) ==
    pg.name = source[i + 1].name /\ pg.part = part

\* the sequence the claim describes for a hit on page_num
IsTrimmedSequence(d, source, p, invert) ==
    IF invert
    THEN /\ Len(d) = Len(source) - p
         /\ IsPartOf(d[1], source, p, "below")
         /\ SubSeq(d, 2, Len(d)) = WholePages(source, p + 1, Len(source) - 1)
    ELSE /\ Len(d) = p + 1
         /\ SubSeq(d, 1, p) = WholePages(source, 0, p - 1)
         /\ IsPartOf(d[p + 1], source, p, "above")

\* C23 as stated: for a hit on page p of an n-page document (p < n) the
\* method comes to its blank removal with new_doc holding pages 0..p-1 and the
\* part of page p above the cutoff, or, inverted, the part of page p below the
\* cutoff and pages p+1..n-1
C23_TrimmedSequenceBuilt ==
    trim.page_num < Len(trim.source)
        => /\ tpc = "blank" =>
                  IsTrimmedSequence(new_doc, trim.source, trim.page_num, trim.invert)
           /\ tpc = "done" => tresult.stage \notin {"copy", "cutoff"}

\* what the code does for p < n: source_doc[page_num] raises TypeError, new_doc
\* holds the copied pages 0..p-1 (none if inverted), nothing is saved
C23_CutoffPageRaises ==
    (tpc = "done" /\ trim.page_num < Len(trim.source))
        => /\ tresult = TrimRaised("TypeError", "cutoff")
           /\ new_doc = IF trim.invert THEN <<>>
                        ELSE WholePages(trim.source, 0, trim.page_num - 1)
           /\ tsaved = <<>>

\* a hit on the second of three pages, not inverted: the first page was
\* copied, then the call raised
C23_RaisedWitness ==
    /\ tpc = "done"
    /\ Len(trim.source) = 3 /\ trim.page_num = 1 /\ ~trim.invert
    /\ Len(new_doc) = 1 /\ new_doc[1].name = 0
    /\ tresult = TrimRaised("TypeError", "cutoff")

-----------------------------------------------------------------------------
(* C24 *)

\* the files of a search batch for which process_pdf reports a failure
FailedSearchFiles ==
    {i \in 1..Len(pdf_files) : ProcessPdf(pdf_files[i].ok) # "returned: success=True"}

\* C24: whenever process_request returns, it returns True exactly when no file
\* failed: in batch mode every file found was handed to the processor and
\* counted, the value is True exactly when the failed count is 0, and it is
\* True when no file was found; in single-file mode the value is the success
\* flag of the processor's result
C24_ReturnsTrueIffNoFileFailed ==
    (qpc = "done" /\ qresult.kind = "returned")
        => IF request.batch
           THEN /\ qresult.value = (failed = 0)
                /\ successful + failed = Len(request.files)
                /\ Len(handed) = Len(request.files)
                /\ request.files = <<>> => qresult.value
                /\ request.op = "search" => failed = Cardinality(FailedSearchFiles)
           ELSE /\ qresult.value = (result = "returned: success=True")
                /\ result \in {"returned: success=True", "returned: success=False"}

\* a delete batch in a directory without PDF files returned True
C24_Witness ==
    /\ qpc = "done"
    /\ request.batch /\ request.op = "delete" /\ request.files = <<>>
    /\ qresult = RequestReturned(TRUE)

\* a search batch over two files returned False with both counted as failed
C24_FailedBatchWitness ==
    /\ qpc = "done"
    /\ request.batch /\ request.op = "search" /\ Len(request.files) = 2
    /\ failed = 2
    /\ qresult = RequestReturned(FALSE)

\* a single-file search returned the flag of the result, False
C24_SingleWitness ==
    /\ qpc = "done"
    /\ ~request.batch /\ request.op = "search"
    /\ result = "returned: success=False"
    /\ qresult = RequestReturned(FALSE)

\* process_request does not return for a delete or before_after request with a
\* file to process: the processor's TypeError leaves it
C24_DeleteWithFileRaises ==
    (qpc = "done" /\ request.op # "search" /\ qresult.kind = "returned")
        => request.batch /\ request.files = <<>>

-----------------------------------------------------------------------------
(* C25 *)

\* C25 as stated: the factory of an interface registered as singleton has
\* been invoked at most once
C25_Original_SingletonFactoryAtMostOnce ==
    \A i \in Interfaces :
        IsSingleton(registrations[i]) => Len(factory_log[i]) <= 1

\* C25, amended: for an interface registered as singleton the factory is
\* invoked again only after every earlier invocation raised, so it returns at
\* most once, and all resolves return the same instance; for a transient
\* interface every resolve invoked the factory; resolve of an interface that
\* is not registered raised ValueError
C25_Lifetimes ==
    /\ \A i \in Interfaces :
           /\ IsSingleton(registrations[i]) =>
                  /\ \A k \in 1..(Len(factory_log[i]) - 1) : factory_log[i][k] = "raised"
                  /\ Cardinality(resolved[i]) <= 1
           /\ registrations[i].kind = "transient" =>
                  Len(factory_log[i]) = resolves[i]
    /\ (last_op.op = "resolve" /\ registrations[last_op.interface].kind = "none")
           => last_op.exc = "ValueError"

\* a singleton whose factory raised at the first resolve and returned at the
\* second
C25_Witness ==
    \E i \in Interfaces :
        /\ registrations[i].kind = "singleton"
        /\ factory_log[i] = <<"raised", "returned">>
        /\ resolves[i] = 3
        /\ Cardinality(resolved[i]) = 1

\* resolve after clear() raised ValueError
C25_ClearedWitness ==
    /\ last_op.op = "resolve"
    /\ registrations[last_op.interface] = NoRegistration
    /\ last_op.exc = "ValueError"

\* a transient interface resolved twice: two invocations, two components
C25_TransientWitness ==
    \E i \in Interfaces :
        /\ registrations[i].kind = "transient"
        /\ factory_log[i] = <<"returned", "returned">>
        /\ Cardinality(resolved[i]) = 2

-----------------------------------------------------------------------------
(* C28 *)

\* C28 as stated: a component resolve returns was produced by the most recent
\* registration of the interface
C28_ResolvesMostRecentRegistration ==
    (last_op.op = "resolve" /\ last_op.exc = "none")
        => last_op.component.reg = registrations[last_op.interface].id

\* what the code does: register_singleton does not touch _singletons, so
\* resolve returns what is cached there, whatever registration made it
C28_ResolvesCachedInstance ==
    (last_op.op = "resolve" /\ last_op.exc = "none"
        /\ IsSingleton(registrations[last_op.interface]))
        => last_op.component = singletons[last_op.interface]

\* an interface resolved, registered again as singleton, resolved again: the
\* instance of the earlier registration came back
C28_StaleWitness ==
    /\ last_op.op = "resolve" /\ last_op.exc = "none"
    /\ registrations[last_op.interface].kind = "singleton"
    /\ last_op.component.reg < registrations[last_op.interface].id
    /\ factory_log[last_op.interface] = <<>>

-----------------------------------------------------------------------------
(* C29 *)

\* C29 as stated: every document process_pdf_delete_pages or
\* process_pdf_delete_before_after has saved has at least one page
C29_SavedDocumentHasAPage ==
    \A k \in 1..Len(saved) : Len(saved[k]) >= 1

\* what the code does: the refusal to delete every page is guarded by
\* page_count > 0, so a document without pages is saved as it is; a document
\* with pages is saved with at least one page left
C29_OnlyEmptyInputSavedEmpty ==
    \A k \in 1..Len(saved) : Len(saved[k]) = 0 => job.pages = 0

\* process_pdf_delete_before_after(before_page=1) on a file without pages
\* saved a document without pages
C29_EmptySavedWitness ==
    /\ job.op = "before_after" /\ job.pages = 0
    /\ job.before_page = Some(1) /\ job.after_page = None
    /\ saved = <<<<>>>>

-----------------------------------------------------------------------------
(* C30 *)

\* close() or the exit of a with block has been called on the document
WasClosed(x) == close_calls[x] >= 1

\* the last call was one the claim says raises on a closed document
OnClosedDocument ==
    /\ last_call.op \in {"save", "delete_page", "new_page", "getitem", "insert_pdf"}
    /\ \/ WasClosed(last_call.doc)
       \/ last_call.op = "insert_pdf" /\ WasClosed("source")

\* C30 as stated: once close() or the exit of a with block was called on a
\* PDFDocument, is_open is False and len() is 0, save, delete_page, new_page,
\* page access and insert_pdf with the closed document as target or as source
\* raise RuntimeError, and the handle is closed at most once however often
\* close() is called
C30_ClosedDocumentLifecycle ==
    /\ \A x \in DocNames :
           /\ WasClosed(x) => ~docs[x].is_open /\ DocLen(docs[x]) = 0
           /\ handle_closes[x] <= 1
    /\ (last_call.op = "query" /\ WasClosed(last_call.doc))
           => ~last_call.is_open /\ last_call.len = 0
    /\ OnClosedDocument => last_call.exc = "RuntimeError"

\* what the code does: everything the claim says but for insert_pdf into an
\* open target from a closed source, which is handed to the library
C30_ClosedSourceReachesLibrary ==
    /\ \A x \in DocNames :
           /\ WasClosed(x) => ~docs[x].is_open /\ DocLen(docs[x]) = 0
           /\ handle_closes[x] = IF WasClosed(x) THEN 1 ELSE 0
    /\ (last_call.op = "query" /\ WasClosed(last_call.doc))
           => ~last_call.is_open /\ last_call.len = 0
    /\ OnClosedDocument =>
           IF last_call.op = "insert_pdf" /\ ~WasClosed("target")
           THEN last_call.exc \in ClosedSourceOutcomes
           ELSE last_call.exc = "RuntimeError"

\* insert_pdf into an open document from a closed one did not raise
\* RuntimeError
C30_ClosedSourceWitness ==
    /\ last_call.op = "insert_pdf"
    /\ WasClosed("source") /\ ~WasClosed("target")
    /\ last_call.exc = "ValueError"

-----------------------------------------------------------------------------
(* C26 *)

\* the command line was rejected
InvalidArguments == cli_result.should_exit /\ cli_result.exit_code # 0

\* help or the version was shown
HelpShown == cli_result.should_exit /\ cli_result.exit_code = 0

C26_SuccessWitness ==
    /\ apc = "done"
    /\ cli_result.operation = "delete" /\ cli_result.is_batch_mode
    /\ success = TRUE
    /\ aresult = AppReturned(0)

\* the processor raised TypeError on a single file: run returned 1
C26_FailureWitness ==
    /\ apc = "done"
    /\ ~cli_result.should_exit /\ ~cli_result.is_batch_mode
    /\ result = "raised: TypeError"
    /\ aresult = AppReturned(1)

-----------------------------------------------------------------------------
(* C27 *)

\* C27 as stated, the route through ApplicationController._execute_workflow:
\* the processor method is called with the invert_selection of the parsed
\* arguments
C27_ControllerPassesInvertSelection ==
    (apc = "call" /\ cli_result.operation \in {"delete", "before_after"})
        => job.invert_selection = cli_result.invert_selection

\* what the code does: _execute_workflow never passes invert_selection, the
\* processor runs with its default False
C27_ControllerDropsInvertSelection ==
    apc = "call" => ~job.invert_selection

\* the route through WorkflowManager.process_request: _run_processor passes
\* the invert_selection of the request, single file and batch
C27_RequestPassesInvertSelection ==
    (qpc \in {"single_call", "batch"} /\ ppc # "idle" /\ request.op # "search")
        => job.invert_selection = request.invert_selection

\* --keep SPEC --file PATH: the processor was called to delete the pages of
\* SPEC
C27_DroppedWitness ==
    /\ apc = "call"
    /\ cli_result.operation = "delete" /\ cli_result.invert_selection
    /\ ~cli_result.is_batch_mode
    /\ job.op = "delete" /\ ~job.invert_selection

====
